---- MODULE Spec2Model ----
(***************************************************************************)
(* Kardia long-term memory store (src/memory.py): the record list, the     *)
(* key index, the backing file, and the operations of MemoryStore.         *)
(*                                                                         *)
(* Representation.                                                         *)
(*  - A Memory object is a record with the twelve dataclass fields.        *)
(*  - self._memories is a sequence of such records; an object reference    *)
(*    is the position of the object in that sequence.                      *)
(*  - self._index_by_key is a function from the indexed keys to positions. *)
(*  - Python's None is the string None; an ISO timestamp is a natural      *)
(*    number read off the clock `now`, 0 being the empty string "" (which  *)
(*    sorts before every ISO timestamp).                                   *)
(*  - uuid4() is a counter: every id it hands out is new.                  *)
(*  - A JSON document is its parsed value; a dict is a function whose      *)
(*    domain is the set of keys present in it.                             *)
(***************************************************************************)
EXTENDS Integers, Sequences, FiniteSets, TLC

VARIABLES
    memories,       \* MemoryStore._memories
    index_by_key,   \* MemoryStore._index_by_key : key -> position in memories
    memory_file,    \* content of data_dir/memories.json (NoFile: absent)
    export_file,    \* content of the file written by export_memories
    uuid_next,      \* next value of uuid.uuid4()
    now,            \* datetime.now()
    last,           \* the last call: its name, arguments and return value
    conversation,   \* KardiaApp.current_conversation.messages
    workers         \* the worker threads inside add_memory: where each one is

vars ==
    <<memories, index_by_key, memory_file, export_file, uuid_next, now, last,
      conversation, workers>>

\* the state of the host application around the store
host == <<conversation, workers>>

\* the threads that may be inside add_memory at once: two of those that
\* generate_async starts, or one of them and the UI thread
Workers == {1, 2}

\* a thread that is not inside add_memory
Idle == [pc |-> "idle"]

----------------------------------------------------------------------------
(* Bounds of the exploration *)

MaxMem == 2      \* longest record list explored
MaxUuid == 3     \* ids handed out by uuid4 in one run
MaxClock == 2    \* largest clock reading
MaxCount == 21   \* longest conversation handed to process_conversation
MaxConversation == 24   \* longest conversation of the chat flow
MaxPending == 1  \* messages of the user waiting for their reply

----------------------------------------------------------------------------
(* Python values *)

None == "None"

\* truthiness of an Optional[str]: `if key`, `if memory.key`
Truthy(s) == s # None /\ s # ""

max(a, b) == IF a >= b THEN a ELSE b
min(a, b) == IF a <= b THEN a ELSE b

Positions(ms) == 1..Len(ms)

\* list.pop(i)
Pop(s, i) == [j \in 1..(Len(s) - 1) |-> IF j < i THEN s[j] ELSE s[j + 1]]

\* dict without key k
DictPop(d, k) == [x \in (DOMAIN d) \ {k} |-> d[x]]

\* dict with d[k] = v
DictSet(d, k, v) == [x \in (DOMAIN d) \cup {k} |-> IF x = k THEN v ELSE d[x]]

EmptyDict == [x \in {} |-> 0]

----------------------------------------------------------------------------
(* class Memory *)

Fields == {"id", "memory_type", "content", "key", "value", "importance",
           "created_at", "last_accessed", "access_count", "companion_id",
           "conversation_id", "is_shared"}

\* fields of the dataclass that have no default
RequiredFields == {"id", "memory_type", "content"}

EmptyTime == 0

FieldDefault(f) ==
    CASE f = "key" -> None
      [] f = "value" -> None
      [] f = "importance" -> 1
      [] f = "created_at" -> EmptyTime
      [] f = "last_accessed" -> EmptyTime
      [] f = "access_count" -> 0
      [] f = "companion_id" -> ""
      [] f = "conversation_id" -> None
      [] f = "is_shared" -> TRUE

\* Memory.to_dict: dataclasses.asdict, every field under its own name
to_dict(m) == [f \in Fields |-> m[f]]

\* Memory.from_dict raises TypeError on an unknown or a missing required key
from_dict_raises(d) ==
    ~((DOMAIN d) \subseteq Fields /\ RequiredFields \subseteq (DOMAIN d))

\* from_dict as it would be if it forced importance into 1..5
from_dict_clamping(d) ==
    [f \in Fields |-> IF f \notin DOMAIN d THEN FieldDefault(f)
                      ELSE IF f = "importance" THEN max(1, min(5, d[f]))
                      ELSE d[f]]

\* Memory.from_dict: cls(**data), absent fields take the dataclass default
from_dict(d) ==
    [f \in Fields |-> IF f \in DOMAIN d THEN d[f] ELSE FieldDefault(f)]

----------------------------------------------------------------------------
(* JSON documents and files *)

\* parsed JSON values: objects, arrays, numbers; the values of a memory's
\* fields (strings, integers, booleans, null) stand for themselves
JObject(d) == [t |-> "object", fields |-> d]
JArray(s) == [t |-> "array", items |-> s]
JNumber(n) == [t |-> "number", number |-> n]
JString(x) == [t |-> "string", chars |-> x]

\* an object some of whose fields hold a JSON string where the program
\* compares numbers; text names those fields
JObjectText(d, text) == [t |-> "object", fields |-> d, text |-> text]

\* `max(existing.importance, memory.importance)` raises TypeError when the
\* item's importance is a string and the record's a number
ImportanceComparable(x) == ~("text" \in DOMAIN x /\ "importance" \in x.text)

\* `for x in j` raises TypeError unless j is a list, a dict or a string
Iterable(j) == j.t \in {"array", "object", "string"}

\* what `for x in j` visits: the elements of a list, the keys of a dict (all
\* of them strings; their order and spelling do not matter to the callers)
Iterate(j) ==
    IF j.t = "array" THEN j.items
    ELSE IF j.t = "object" THEN [i \in 1..Cardinality(DOMAIN j.fields) |-> JString("key")]
    ELSE <<>>

NoFile == [exists |-> FALSE]                    \* no file at the path
NotJson == [exists |-> TRUE, parses |-> FALSE]  \* a file json.load rejects
JsonFile(j) == [exists |-> TRUE, parses |-> TRUE, json |-> j]

\* `[m.to_dict() for m in self._memories]`
DictsOf(ms) == [i \in Positions(ms) |-> JObject(to_dict(ms[i]))]

(* MemoryStore.save *)

\* how a call of save ends: the list is written; mkdir or open raises and
\* the file is as it was; json.dump or the closing flush raises after
\* open(.., "w") has truncated the file, which is left empty or cut short
Written == "written"
Unopened == "unopened"
Truncated == "truncated"

SaveOutcomes == {Written, Unopened, Truncated}

\* a save that never writes
SavedFileStale(ms, old, ok) == old

\* the file after save(); every exception is swallowed
SavedFile(ms, old, ok) ==
    CASE ok = Written -> JsonFile(JArray(DictsOf(ms)))
      [] ok = Unopened -> old
      [] ok = Truncated -> NotJson

(* MemoryStore.load, _rebuild_index *)

\* the list load() leaves in self._memories: empty unless the file exists,
\* parses, and Memory.from_dict accepts every element of it
load(file) ==
    IF ~file.exists \/ ~file.parses THEN <<>>
    ELSE IF ~Iterable(file.json) THEN <<>>
    ELSE LET data == Iterate(file.json) IN
         IF \E i \in DOMAIN data : data[i].t # "object" \/ from_dict_raises(data[i].fields)
         THEN <<>>
         ELSE [i \in DOMAIN data |-> from_dict(data[i].fields)]

\* _rebuild_index: the last record with a key takes the key's entry
rebuild_index(ms) ==
    LET keys == {ms[i].key : i \in {j \in Positions(ms) : Truthy(ms[j].key)}}
    IN [k \in keys |-> CHOOSE i \in Positions(ms) :
                            /\ ms[i].key = k
                            /\ \A j \in Positions(ms) : ms[j].key = k => j <= i]

\* MemoryStore.__init__ on a data_dir that holds the backing file: the
\* application starts again
Load ==
    /\ memories' = load(memory_file)
    /\ index_by_key' = rebuild_index(memories')
    /\ last' = [op |-> "load"]
    /\ UNCHANGED <<memory_file, export_file, uuid_next, now, host>>

----------------------------------------------------------------------------
(* MemoryStore.add_memory *)

(* The arguments of the calls explored *)

\* the pattern extractor's name fact
ArgAlice ==
    [memory_type |-> "personal_info", content |-> "User's name is Alice",
     key |-> "name", value |-> "Alice", importance |-> 5,
     companion_id |-> "A", is_shared |-> TRUE]

\* a settings-dialog entry on the same key
ArgBob ==
    [memory_type |-> "personal_info", content |-> "Goes by Bob",
     key |-> "name", value |-> "Bob", importance |-> 2,
     companion_id |-> "B", is_shared |-> TRUE]

\* a companion-specific note without key
ArgHiking ==
    [memory_type |-> "interest", content |-> "Likes hiking",
     key |-> None, value |-> None, importance |-> 3,
     companion_id |-> "A", is_shared |-> FALSE]

\* REST calls with no current companion, which pass the request's key,
\* importance and is_shared as they come
ArgRaw ==
    [memory_type |-> "preference", content |-> "raw",
     key |-> "", value |-> "", importance |-> 9,
     companion_id |-> "", is_shared |-> FALSE]

ArgRawAgain ==
    [memory_type |-> "preference", content |-> "raw again",
     key |-> "", value |-> "x", importance |-> 0,
     companion_id |-> "", is_shared |-> FALSE]

AddArgs == {ArgAlice, ArgBob, ArgHiking, ArgRaw}

NewMemory(a, id, t1, t2) ==
    [id |-> id, memory_type |-> a.memory_type, content |-> a.content,
     key |-> a.key, value |-> a.value, importance |-> a.importance,
     created_at |-> t1, last_accessed |-> t2, access_count |-> 0,
     companion_id |-> a.companion_id, conversation_id |-> None,
     is_shared |-> a.is_shared]

\* `if key and key in self._index_by_key`
KeyIndexed(idx, key) == Truthy(key) /\ key \in DOMAIN idx

\* the keyed upsert of add_memory on the record at position p
UpsertExisting(ms, p, a, t) ==
    [ms EXCEPT ![p] = [@ EXCEPT !.value = a.value,
                                !.content = a.content,
                                !.importance = max(@, a.importance),
                                !.last_accessed = t]]

\* the store as a value: what a call works on and hands to the next call
StoreNow ==
    [memories |-> memories, index_by_key |-> index_by_key,
     memory_file |-> memory_file, uuid_next |-> uuid_next]

\* add_memory on the store st; t1, t2, t3: the three readings of
\* datetime.now() in program order; ok: how the save ends. The result is the
\* store after the call, with the record returned (ret, a position) and
\* whether it was created
add_memory(st, a, t1, t2, t3, ok) ==
    LET after ==
          IF KeyIndexed(st.index_by_key, a.key)
          THEN LET p == st.index_by_key[a.key] IN
               [memories |-> UpsertExisting(st.memories, p, a, t3),
                index_by_key |-> st.index_by_key,
                uuid_next |-> st.uuid_next,
                created |-> FALSE, ret |-> p]
          ELSE [memories |-> Append(st.memories, NewMemory(a, st.uuid_next, t1, t2)),
                index_by_key |-> IF Truthy(a.key)
                                 THEN DictSet(st.index_by_key, a.key, Len(st.memories) + 1)
                                 ELSE st.index_by_key,
                uuid_next |-> st.uuid_next + 1,
                created |-> TRUE, ret |-> Len(st.memories) + 1]
    IN [memories |-> after.memories, index_by_key |-> after.index_by_key,
        memory_file |-> SavedFile(after.memories, st.memory_file, ok),
        uuid_next |-> after.uuid_next, created |-> after.created, ret |-> after.ret]

\* the store stays within the bounds of the exploration
WithinBounds(st) == Len(st.memories) <= MaxMem /\ st.uuid_next <= MaxUuid + 1

AddMemory(a, t1, t2, t3, ok) ==
    LET r == add_memory(StoreNow, a, t1, t2, t3, ok) IN
    /\ now <= t1 /\ t1 <= t2 /\ t2 <= t3 /\ t3 <= MaxClock
    /\ WithinBounds(r)
    /\ memories' = r.memories
    /\ index_by_key' = r.index_by_key
    /\ uuid_next' = r.uuid_next
    /\ memory_file' = r.memory_file
    /\ UNCHANGED host
    /\ last' = [op |-> "add_memory", args |-> a, created |-> r.created, ret |-> r.ret]
    /\ now' = t3
    /\ UNCHANGED export_file

----------------------------------------------------------------------------
(* MemoryStore.delete_memory, update_memory_importance *)

\* position of the first record of ms whose id is memory_id, 0 when there is
\* none: `for i, memory in enumerate(self._memories): if memory.id == memory_id`
FirstWithId(ms, memory_id) ==
    LET hits == {i \in Positions(ms) : ms[i].id = memory_id}
    IN IF hits = {} THEN 0 ELSE CHOOSE i \in hits : \A j \in hits : i <= j

\* the index after self._memories.pop(p): the references stay on their
\* objects, whose positions above p move down by one (0: the object left
\* the list)
IndexAfterPop(idx, p) ==
    [k \in DOMAIN idx |-> IF idx[k] > p THEN idx[k] - 1
                          ELSE IF idx[k] = p THEN 0 ELSE idx[k]]

\* `if memory.key: self._index_by_key.pop(memory.key, None)`
IndexWithoutKeyOf(idx, m) ==
    IF Truthy(m.key) THEN DictPop(idx, m.key) ELSE idx

DeleteMemory(memory_id, ok) ==
    LET p == FirstWithId(memories, memory_id) IN
    /\ IF p # 0
       THEN /\ index_by_key' = IndexAfterPop(IndexWithoutKeyOf(index_by_key, memories[p]), p)
            /\ memories' = Pop(memories, p)
            /\ memory_file' = SavedFile(memories', memory_file, ok)
       ELSE UNCHANGED <<memories, index_by_key, memory_file>>
    /\ UNCHANGED host
    /\ last' = [op |-> "delete_memory", memory_id |-> memory_id, ret |-> (p # 0)]
    /\ UNCHANGED <<export_file, uuid_next, now>>

\* the clamp without its upper end
ClampImportanceNoCeiling(importance) == max(1, importance)

\* `max(1, min(5, importance))`
ClampImportance(importance) == max(1, min(5, importance))

UpdateMemoryImportance(memory_id, importance, ok) ==
    LET p == FirstWithId(memories, memory_id) IN
    /\ IF p # 0
       THEN /\ memories' = [memories EXCEPT ![p].importance = ClampImportance(importance)]
            /\ memory_file' = SavedFile(memories', memory_file, ok)
       ELSE UNCHANGED <<memories, memory_file>>
    /\ UNCHANGED host
    /\ last' = [op |-> "update_memory_importance", memory_id |-> memory_id,
                importance |-> importance, ret |-> (p # 0)]
    /\ UNCHANGED <<index_by_key, export_file, uuid_next, now>>

----------------------------------------------------------------------------
(* MemoryStore.get_memories_for_companion *)

\* the positions of ms in list order: the order a comprehension visits them
PositionSeq(ms) == [i \in Positions(ms) |-> i]

\* `[m for m in self._memories if m.is_shared]`
SharedOf(ms) ==
    LET Test(i) == ms[i].is_shared IN SelectSeq(PositionSeq(ms), Test)

\* the companion's records without the test on is_shared
SpecificOfAnyScope(ms, companion_id) ==
    LET Test(i) == ms[i].companion_id = companion_id
    IN SelectSeq(PositionSeq(ms), Test)

\* `[m for m in self._memories if m.companion_id == companion_id and not m.is_shared]`
SpecificOf(ms, companion_id) ==
    LET Test(i) == ms[i].companion_id = companion_id /\ ~ms[i].is_shared
    IN SelectSeq(PositionSeq(ms), Test)

\* the returned list, as positions in self._memories: `shared + specific`
get_memories_for_companion(ms, companion_id) ==
    SharedOf(ms) \o SpecificOf(ms, companion_id)

GetMemoriesForCompanion(companion_id) ==
    /\ UNCHANGED host
    /\ last' = [op |-> "get_memories_for_companion", companion_id |-> companion_id,
                ret |-> get_memories_for_companion(memories, companion_id)]
    /\ UNCHANGED <<memories, index_by_key, memory_file, export_file, uuid_next, now>>

----------------------------------------------------------------------------
(* Memory.touch and the reads that touch *)

MaxAccess == 3   \* largest access_count explored

\* a touch that leaves the access counter alone
touch_no_count(m, t) == [m EXCEPT !.last_accessed = t]

\* Memory.touch at clock reading t
touch(m, t) == [m EXCEPT !.last_accessed = t, !.access_count = @ + 1]

\* `for m in memories: m.touch()`: ps lists the positions touched, in order,
\* and ts the clock readings of the touches
TouchAll(ms, ps, ts) ==
    [i \in Positions(ms) |->
        IF \E n \in DOMAIN ps : ps[n] = i
        THEN touch(ms[i], ts[CHOOSE n \in DOMAIN ps : ps[n] = i])
        ELSE ms[i]]

\* the readings n calls of datetime.now() in a row may return: every
\* nondecreasing sequence of length n between now and MaxClock
ClockReadings(n) ==
    { [i \in 1..n |-> now + Cardinality({v \in DOMAIN cut : cut[v] < i})] :
        cut \in [(now + 1)..MaxClock -> 0..n] }

\* the clock after the readings ts
ClockAfter(ts) == IF Len(ts) = 0 THEN now ELSE ts[Len(ts)]

\* no record at the positions ps has reached the largest counter explored
CanTouch(ms, ps, times) ==
    \A n \in DOMAIN ps : ms[ps[n]].access_count + times <= MaxAccess

\* sorted(.., key=k, reverse=True) over the positions ps: descending by key,
\* equal keys in their order in ps (the sort is stable)
SortedDesc(ps, k) ==
    LET n == Len(ps)
        Before(i, j) == k[ps[i]] > k[ps[j]] \/ (k[ps[i]] = k[ps[j]] /\ i < j)
        Rank(i) == 1 + Cardinality({j \in 1..n : Before(j, i)})
    IN [r \in 1..n |-> ps[CHOOSE i \in 1..n : Rank(i) = r]]

\* the slice s[:limit]
Take(s, limit) ==
    LET m == IF limit >= 0 THEN min(limit, Len(s)) ELSE max(0, Len(s) + limit)
    IN SubSeq(s, 1, m)

(* get_memory_by_key *)

\* `self._index_by_key.get(key)`: the position of the indexed record, 0 for None
IndexGet(idx, key) == IF key \in DOMAIN idx THEN idx[key] ELSE 0

\* get_memory_by_key on the store st: the store after the call and the
\* position returned (0 for None); a record found is touched and saved
get_memory_by_key(st, key, t, ok) ==
    LET p == IndexGet(st.index_by_key, key)
        ms == IF p # 0 THEN TouchAll(st.memories, <<p>>, <<t>>) ELSE st.memories
    IN [memories |-> ms, index_by_key |-> st.index_by_key,
        memory_file |-> IF p # 0 THEN SavedFile(ms, st.memory_file, ok)
                        ELSE st.memory_file,
        uuid_next |-> st.uuid_next, ret |-> p]

GetMemoryByKey(key, t, ok) ==
    LET r == get_memory_by_key(StoreNow, key, t, ok) IN
    /\ now <= t /\ t <= MaxClock
    /\ r.ret # 0 => CanTouch(memories, <<r.ret>>, 1)
    /\ memories' = r.memories
    /\ memory_file' = r.memory_file
    /\ now' = IF r.ret # 0 THEN t ELSE now
    /\ UNCHANGED host
    /\ last' = [op |-> "get_memory_by_key", key |-> key,
                ret |-> IF r.ret # 0 THEN <<r.ret>> ELSE <<>>]
    /\ UNCHANGED <<index_by_key, export_file, uuid_next>>

(* get_memories_by_type *)

\* `[m for m in self._memories if m.memory_type == memory_type]`
OfType(ms, memory_type) ==
    LET Test(i) == ms[i].memory_type = memory_type
    IN SelectSeq(PositionSeq(ms), Test)

GetMemoriesByType(memory_type, ts, ok) ==
    LET ps == OfType(memories, memory_type) IN
    /\ Len(ts) = Len(ps)
    /\ CanTouch(memories, ps, 1)
    /\ memories' = TouchAll(memories, ps, ts)
    /\ memory_file' = SavedFile(memories', memory_file, ok)
    /\ now' = ClockAfter(ts)
    /\ UNCHANGED host
    /\ last' = [op |-> "get_memories_by_type", memory_type |-> memory_type, ret |-> ps]
    /\ UNCHANGED <<index_by_key, export_file, uuid_next>>

(* get_important_memories *)

\* `[m for m in self._memories if m.importance >= min_importance]`
AtLeast(ms, min_importance) ==
    LET Test(i) == ms[i].importance >= min_importance
    IN SelectSeq(PositionSeq(ms), Test)

\* the important records in list order, without the sort
get_important_unsorted(ms, min_importance) == AtLeast(ms, min_importance)

\* the list returned: `sorted(memories, key=lambda m: m.importance, reverse=True)`
get_important_memories(ms, min_importance) ==
    SortedDesc(AtLeast(ms, min_importance), [i \in Positions(ms) |-> ms[i].importance])

GetImportantMemories(min_importance, ts, ok) ==
    LET ps == AtLeast(memories, min_importance) IN
    /\ Len(ts) = Len(ps)
    /\ CanTouch(memories, ps, 1)
    /\ memories' = TouchAll(memories, ps, ts)
    /\ memory_file' = SavedFile(memories', memory_file, ok)
    /\ now' = ClockAfter(ts)
    /\ UNCHANGED host
    /\ last' = [op |-> "get_important_memories", min_importance |-> min_importance,
                ret |-> get_important_memories(memories, min_importance)]
    /\ UNCHANGED <<index_by_key, export_file, uuid_next>>

(* get_recent_memories *)

\* `sorted(self._memories, key=lambda m: m.last_accessed, reverse=True)[:limit]`
get_recent_memories(ms, limit) ==
    Take(SortedDesc(PositionSeq(ms), [i \in Positions(ms) |-> ms[i].last_accessed]),
         limit)

GetRecentMemories(limit, ts, ok) ==
    LET ps == get_recent_memories(memories, limit) IN
    /\ Len(ts) = Len(ps)
    /\ CanTouch(memories, ps, 1)
    /\ memories' = TouchAll(memories, ps, ts)
    /\ memory_file' = SavedFile(memories', memory_file, ok)
    /\ now' = ClockAfter(ts)
    /\ UNCHANGED host
    /\ last' = [op |-> "get_recent_memories", limit |-> limit, ret |-> ps]
    /\ UNCHANGED <<index_by_key, export_file, uuid_next>>

(* search_memories *)

\* query.lower() on the queries explored
Lower(query) == IF query = "ALI" THEN "ali" ELSE query

\* `q in text.lower()` on the lower-case queries and the texts explored: the
\* pairs <<q, text>> with q a substring of the lower-cased text
Substrings ==
    { <<"ali", "User's name is Alice">>, <<"ali", "Alice">>,
      <<"name", "User's name is Alice">>, <<"name", "name">>,
      <<"name", "Name is Zed">>, <<"hik", "Likes hiking">> }

Occurs(q, text) == q = "" \/ <<q, text>> \in Substrings

\* the comprehension of search_memories, as positions
search_memories(ms, query) ==
    LET Test(i) == \/ Occurs(Lower(query), ms[i].content)
                   \/ (Truthy(ms[i].key) /\ Occurs(Lower(query), ms[i].key))
                   \/ (Truthy(ms[i].value) /\ Occurs(Lower(query), ms[i].value))
    IN SelectSeq(PositionSeq(ms), Test)

SearchMemories(query) ==
    /\ UNCHANGED host
    /\ last' = [op |-> "search_memories", query |-> query,
                ret |-> search_memories(memories, query)]
    /\ UNCHANGED <<memories, index_by_key, memory_file, export_file, uuid_next, now>>

----------------------------------------------------------------------------
(* MemoryStore.get_memories_for_context, get_context_summary *)

ContextImportance == 3   \* get_important_memories(3)
ContextRecent == 20      \* get_recent_memories(20)
ContextDefault == 15     \* max_count: int = 15
ItemsPerType == 5        \* type_memories[:5]

\* `m not in important`: the list test is by identity or by the dataclass's
\* field-by-field equality
NotInList(ms, ps, p) ==
    \A n \in DOMAIN ps : ps[n] # p /\ ms[ps[n]] # ms[p]

\* the two reads of get_memories_for_context in program order: ts1 and ts2
\* are the clock readings of their touches; `after1` is the list between the
\* two reads, `memories` the list at return, `ret` the list returned
get_memories_for_context(ms, max_count, ts1, ts2) ==
    LET important == get_important_memories(ms, ContextImportance)
        ms1 == TouchAll(ms, AtLeast(ms, ContextImportance), ts1)
        touched == get_recent_memories(ms1, ContextRecent)
        ms2 == TouchAll(ms1, touched, ts2)
        Fresh(p) == NotInList(ms2, important, p)
        recent == SelectSeq(touched, Fresh)
    IN [after1 |-> ms1, memories |-> ms2,
        ret |-> Take(important \o recent, max_count)]

\* the touches of the two reads: one per important record, then one per
\* record among the ContextRecent most recent
ContextTouches(ms) ==
    Len(AtLeast(ms, ContextImportance)) + min(ContextRecent, Len(ms))

\* the frame of a call of get_memories_for_context: both reads touch and
\* save; ts are the readings of all touches, c the result of the two reads
ContextFrame(ts, c, ok1, ok2) ==
    /\ Len(ts) = ContextTouches(memories)
    /\ CanTouch(memories, AtLeast(memories, ContextImportance), 2)
    /\ CanTouch(memories, PositionSeq(memories), 1)
    /\ memories' = c.memories
    /\ memory_file' = SavedFile(c.memories, SavedFile(c.after1, memory_file, ok1), ok2)
    /\ now' = ClockAfter(ts)
    /\ UNCHANGED <<index_by_key, export_file, uuid_next>>

\* the readings of the first read's touches, and of the second's
FirstReadings(ms, ts) == SubSeq(ts, 1, Len(AtLeast(ms, ContextImportance)))
SecondReadings(ms, ts) == SubSeq(ts, Len(AtLeast(ms, ContextImportance)) + 1, Len(ts))

GetMemoriesForContext(max_count, ts, ok1, ok2) ==
    LET c == get_memories_for_context(memories, max_count,
                 FirstReadings(memories, ts), SecondReadings(memories, ts)) IN
    /\ ContextFrame(ts, c, ok1, ok2)
    /\ UNCHANGED host
    /\ last' = [op |-> "get_memories_for_context", max_count |-> max_count,
                ret |-> c.ret]

NoInformation == "No information about the user yet."

\* type_labels.get(memory_type, memory_type.replace("_", " ").title())
TypeLabel(memory_type) ==
    CASE memory_type = "personal_info" -> "Personal Information"
      [] memory_type = "preference" -> "Preferences"
      [] memory_type = "life_event" -> "Life Events"
      [] memory_type = "emotional_state" -> "Emotional Patterns"
      [] memory_type = "interest" -> "Interests"
      [] memory_type = "relationship" -> "Relationships"
      [] memory_type = "goal" -> "Goals"
      [] memory_type = "important_fact" -> "Important Facts"
      [] memory_type = "conversation_topic" -> "Conversation Topic"

\* the item line that shows the key whenever there is one
ItemLineKeyOnly(m) ==
    IF Truthy(m.key)
    THEN <<"- ", m.key, ": ", m.value>>
    ELSE <<"- ", m.content>>

\* one item line, as the pieces the f-string puts together
ItemLine(m) ==
    IF Truthy(m.key) /\ Truthy(m.value)
    THEN <<"- ", m.key, ": ", m.value>>
    ELSE <<"- ", m.content>>

\* by_type: the members of ctx of one type, in the order of ctx
TypeMembers(ms, ctx, memory_type) ==
    LET Test(p) == ms[p].memory_type = memory_type IN SelectSeq(ctx, Test)

\* the keys of by_type in insertion order: each type where ctx first has it
TypeOrder(ms, ctx) ==
    LET First(n) == \A k \in 1..(n - 1) : ms[ctx[k]].memory_type # ms[ctx[n]].memory_type
        firsts == SelectSeq([n \in DOMAIN ctx |-> n], First)
    IN [n \in DOMAIN firsts |-> ms[ctx[firsts[n]]].memory_type]

\* the block of one type: its label and the lines of its first ItemsPerType
\* members; the text is label + ":\n" + the lines joined by "\n"
TypeBlock(ms, ctx, memory_type) ==
    LET shown == Take(TypeMembers(ms, ctx, memory_type), ItemsPerType)
    IN [label |-> TypeLabel(memory_type),
        items |-> [n \in DOMAIN shown |-> ItemLine(ms[shown[n]])]]

\* the summary over the context list ctx: the sentinel, or the blocks that
\* "\n\n".join puts together
context_summary(ms, ctx) ==
    IF Len(ctx) = 0 THEN [text |-> NoInformation, blocks |-> <<>>]
    ELSE LET types == TypeOrder(ms, ctx)
         IN [text |-> "blocks",
             blocks |-> [n \in DOMAIN types |-> TypeBlock(ms, ctx, types[n])]]

GetContextSummary(ts, ok1, ok2) ==
    LET c == get_memories_for_context(memories, ContextDefault,
                 FirstReadings(memories, ts), SecondReadings(memories, ts)) IN
    /\ ContextFrame(ts, c, ok1, ok2)
    /\ UNCHANGED host
    /\ last' = [op |-> "get_context_summary", context |-> c.ret,
                ret |-> context_summary(c.memories, c.ret)]

----------------------------------------------------------------------------
(* MemoryStore.export_memories *)

ExportVersion == "1.0"

\* the JSON envelope of export_memories(format="json")
ExportEnvelope(ms, t) ==
    JObject([version |-> ExportVersion, export_date |-> t,
             total_memories |-> Len(ms), memories |-> JArray(DictsOf(ms))])

\* ok = FALSE: open() raises and the exception becomes a failure result; the
\* text report of format "txt" is a file that is not JSON
ExportMemories(format, ok) ==
    /\ IF format \in {"json", "txt"} /\ ok
       THEN /\ export_file' = IF format = "json"
                              THEN JsonFile(ExportEnvelope(memories, now))
                              ELSE NotJson
            /\ last' = [op |-> "export_memories",
                        ret |-> [success |-> TRUE, format |-> format,
                                 count |-> Len(memories)]]
       ELSE /\ export_file' = export_file
            /\ last' = [op |-> "export_memories", ret |-> [success |-> FALSE]]
    /\ UNCHANGED host
    /\ UNCHANGED <<memories, index_by_key, memory_file, uuid_next, now>>

----------------------------------------------------------------------------
(* MemoryStore.import_memories *)

\* `isinstance(data, dict) and "memories" in data`
IsEnvelope(j) == j.t = "object" /\ "memories" \in DOMAIN j.fields

\* data.get(k, "unknown")
GetOrUnknown(j, k) ==
    IF j.t = "object" /\ k \in DOMAIN j.fields THEN j.fields[k] ELSE "unknown"

\* the default that scopes an old record to its companion
WithIsSharedOff(d) ==
    IF "is_shared" \in DOMAIN d THEN d ELSE DictSet(d, "is_shared", FALSE)

\* `if "is_shared" not in mem_data: mem_data["is_shared"] = True`
WithIsShared(d) ==
    IF "is_shared" \in DOMAIN d THEN d ELSE DictSet(d, "is_shared", TRUE)

\* the two assignments of the merge that precede the comparison of the
\* importances
MergeBegun(ms, p, m) ==
    [ms EXCEPT ![p] = [@ EXCEPT !.value = m.value, !.content = m.content]]

\* the merge of an incoming record into the indexed one, merge mode
MergeExisting(ms, p, m) ==
    [ms EXCEPT ![p] = [@ EXCEPT !.value = m.value,
                                !.content = m.content,
                                !.importance = max(@, m.importance)]]

\* `self._memories.append(memory); if memory.key: self._index_by_key[...] = memory`
AppendIndexed(st, m) ==
    [st EXCEPT !.memories = Append(@, m),
               !.index_by_key = IF Truthy(m.key)
                                THEN DictSet(@, m.key, Len(st.memories) + 1)
                                ELSE @,
               !.added = @ + 1]

\* a turn of the loop that drops an invalid item without counting it
ImportOneUncounted(st, x, merge) ==
    IF x.t # "object" \/ from_dict_raises(WithIsShared(x.fields))
    THEN st
    ELSE LET memory == from_dict(WithIsShared(x.fields)) IN
         IF KeyIndexed(st.index_by_key, memory.key) /\ merge
         THEN [st EXCEPT !.memories = MergeExisting(@, st.index_by_key[memory.key], memory),
                         !.updated = @ + 1]
         ELSE AppendIndexed(st, memory)

\* one turn of the loop over memories_data; st holds the store and the counters
ImportOne(st, x, merge) ==
    IF x.t # "object" \/ from_dict_raises(WithIsShared(x.fields))
    THEN [st EXCEPT !.skipped = @ + 1]
    ELSE LET memory == from_dict(WithIsShared(x.fields)) IN
         IF KeyIndexed(st.index_by_key, memory.key)
         THEN IF merge
              THEN IF ImportanceComparable(x)
                   THEN [st EXCEPT !.memories = MergeExisting(@, st.index_by_key[memory.key], memory),
                                   !.updated = @ + 1]
                   ELSE \* the TypeError is caught by the loop's except
                        [st EXCEPT !.memories = MergeBegun(@, st.index_by_key[memory.key], memory),
                                   !.skipped = @ + 1]
              ELSE AppendIndexed(st, memory)
         ELSE AppendIndexed(st, memory)

RECURSIVE ImportLoop(_, _, _, _)
ImportLoop(st, items, i, merge) ==
    IF i > Len(items) THEN st
    ELSE ImportLoop(ImportOne(st, items[i], merge), items, i + 1, merge)

\* the store the loop starts from: `if not merge: self._memories = []; self._index_by_key = {}`
ImportStart(ms, idx, merge) ==
    [memories |-> IF merge THEN ms ELSE <<>>,
     index_by_key |-> IF merge THEN idx ELSE EmptyDict,
     added |-> 0, updated |-> 0, skipped |-> 0]

ImportFailure(error) == [success |-> FALSE, error |-> error]

\* source names the file for `last`: "upload" or "export"
ImportMemories(file, source, merge, ok) ==
    LET Call(ret) == [op |-> "import_memories", source |-> source, file |-> file,
                      merge |-> merge, ret |-> ret] IN
    /\ UNCHANGED host
    /\ UNCHANGED <<export_file, uuid_next, now>>
    /\ IF ~file.exists
       THEN /\ last' = Call(ImportFailure("File not found"))
            /\ UNCHANGED <<memories, index_by_key, memory_file>>
       ELSE IF ~file.parses
       THEN /\ last' = Call(ImportFailure("Invalid JSON"))
            /\ UNCHANGED <<memories, index_by_key, memory_file>>
       ELSE IF ~(IsEnvelope(file.json) \/ file.json.t = "array")
       THEN /\ last' = Call(ImportFailure("Invalid import file format"))
            /\ UNCHANGED <<memories, index_by_key, memory_file>>
       ELSE LET memories_data == IF IsEnvelope(file.json) THEN file.json.fields["memories"]
                                 ELSE file.json
                start == ImportStart(memories, index_by_key, merge)
            IN IF ~Iterable(memories_data)
               THEN \* `for mem_data in memories_data` raises TypeError
                    /\ memories' = start.memories
                    /\ index_by_key' = start.index_by_key
                    /\ memory_file' = memory_file
                    /\ last' = Call(ImportFailure("not iterable"))
               ELSE LET end == ImportLoop(start, Iterate(memories_data), 1, merge) IN
                    /\ Len(end.memories) <= MaxMem
                    /\ memories' = end.memories
                    /\ index_by_key' = end.index_by_key
                    /\ memory_file' = SavedFile(memories', memory_file, ok)
                    /\ last' = Call([success |-> TRUE, added |-> end.added,
                                  updated |-> end.updated, skipped |-> end.skipped,
                                  total |-> end.added + end.updated,
                                  source_version |-> GetOrUnknown(file.json, "version"),
                                  source_date |-> GetOrUnknown(file.json, "export_date")])

----------------------------------------------------------------------------
(* MemoryExtractor.extract_quick_facts *)

(* A message is the sequence of its tokens: its words (the runs that \w+    *)
(* matches, "i'm" taken as one) and the punctuation marks between them. A   *)
(* pattern is the words it spells out before and after its group.           *)

Punctuation == {",", ".", "!"}

IsWord(tok) == tok \notin Punctuation

\* re.IGNORECASE: the letters of a token in lower case, on the tokens explored
LowerToken(tok) ==
    CASE tok = "My" -> "my"
      [] tok = "I" -> "i"
      [] tok = "Alice" -> "alice"
      [] OTHER -> tok

\* str.title() on the words explored
Title(tok) ==
    CASE tok \in {"alice", "Alice"} -> "Alice"
      [] tok = "alexander" -> "Alexander"
      [] tok = "alex" -> "Alex"
      [] tok = "happy" -> "Happy"
      [] tok = "oslo" -> "Oslo"

\* the tokens of msg from position i on spell out the words lits
Spells(msg, i, lits) ==
    /\ i + Len(lits) - 1 <= Len(msg)
    /\ \A j \in 1..Len(lits) : LowerToken(msg[i + j - 1]) = lits[j]

\* re.search(pattern, message, re.IGNORECASE): the position of the word the
\* first (\w+) group captures in the leftmost match, 0 when there is no
\* match; a second group captures the word after the suffix
Search(msg, pat) ==
    LET n == Len(pat.prefix)
        k == Len(pat.suffix)
        hits == {i \in 1..Len(msg) :
                    /\ i + n <= Len(msg)
                    /\ Spells(msg, i, pat.prefix)
                    /\ IsWord(msg[i + n])
                    /\ Spells(msg, i + n + 1, pat.suffix)
                    /\ pat.groups = 2 =>
                            (i + n + k + 1 <= Len(msg) /\ IsWord(msg[i + n + k + 1]))}
    IN IF hits = {} THEN 0
       ELSE n + CHOOSE i \in hits : \A j \in hits : i <= j

name_patterns ==
    << [prefix |-> <<"my", "name", "is">>, suffix |-> <<>>, groups |-> 1],
       [prefix |-> <<"i'm", "called">>, suffix |-> <<>>, groups |-> 1],
       [prefix |-> <<"call", "me">>, suffix |-> <<>>, groups |-> 1],
       [prefix |-> <<"i", "am">>, suffix |-> <<"and">>, groups |-> 1] >>

location_patterns ==
    << [prefix |-> <<"i", "live", "in">>, suffix |-> <<>>, groups |-> 1],
       [prefix |-> <<"i'm", "from">>, suffix |-> <<>>, groups |-> 1],
       [prefix |-> <<"i", "stay", "in">>, suffix |-> <<>>, groups |-> 1] >>

\* (pattern, relation, importance); the last one has a second group after
\* the word "is"
preferences ==
    << [prefix |-> <<"i", "love">>, suffix |-> <<>>, groups |-> 1, relation |-> "loves", importance |-> 3],
       [prefix |-> <<"i", "hate">>, suffix |-> <<>>, groups |-> 1, relation |-> "hates", importance |-> 3],
       [prefix |-> <<"i", "really", "like">>, suffix |-> <<>>, groups |-> 1, relation |-> "likes",
        importance |-> 2],
       [prefix |-> <<"i", "can't", "stand">>, suffix |-> <<>>, groups |-> 1, relation |-> "dislikes",
        importance |-> 3],
       [prefix |-> <<"my", "favorite">>, suffix |-> <<"is">>, groups |-> 2, relation |-> "favorite",
        importance |-> 4] >>

\* f"User's name is {name}", on the names explored
NameContent(name) ==
    CASE name = "Alice" -> "User's name is Alice"
      [] name = "Alexander" -> "User's name is Alexander"
      [] name = "Alex" -> "User's name is Alex"
      [] name = "Happy" -> "User's name is Happy"

NameFact(name, companion_id) ==
    [memory_type |-> "personal_info", content |-> NameContent(name),
     key |-> "name", value |-> name, importance |-> 5,
     companion_id |-> companion_id, is_shared |-> TRUE]

\* the group ([\w\s]+) from position c on: the words up to the next
\* punctuation mark
WordRun(msg, c) ==
    LET stops == {i \in c..Len(msg) : ~IsWord(msg[i])}
        end == IF stops = {} THEN Len(msg)
               ELSE (CHOOSE i \in stops : \A j \in stops : i <= j) - 1
    IN SubSeq(msg, c, end)

\* match.group(1).title() and f"User lives in {location}" on the runs explored
LocationFact(run, companion_id) ==
    LET location == CASE run = <<"oslo">> -> "Oslo"
        content == CASE location = "Oslo" -> "User lives in Oslo"
    IN [memory_type |-> "personal_info", content |-> content,
        key |-> "location", value |-> location, importance |-> 3,
        companion_id |-> companion_id, is_shared |-> TRUE]

\* the key, value and content of a preference, on the words explored:
\* f"{relation}_{value}" and f"User {relation} {value}", or
\* f"favorite_{thing}" and f"User's favorite {thing} is {value}"
PreferenceFact(pref, first, second, companion_id) ==
    LET favorite == pref.relation = "favorite"
        value == IF favorite THEN second ELSE first
        key == CASE pref.relation = "loves" /\ first = "hiking" -> "loves_hiking"
                 [] favorite /\ first = "colour" -> "favorite_colour"
        content == CASE key = "loves_hiking" -> "User loves hiking"
                     [] key = "favorite_colour" /\ value = "green" ->
                            "User's favorite colour is green"
    IN [memory_type |-> "preference", content |-> content,
        key |-> key, value |-> value, importance |-> pref.importance,
        companion_id |-> companion_id, is_shared |-> TRUE]

\* what the call carries from pattern to pattern: the store (st), the list it
\* will return (ret, positions) and the add_memory calls made on the key
\* "name" (name_adds)
QuickStart(st) == [st |-> st, ret |-> <<>>, name_adds |-> 0]

\* `memory = self.memory_store.add_memory(..); memories.append(memory)`
QuickAdd(x, st, fact, t, ok) ==
    LET r == add_memory(st, fact, t, t, t, ok) IN
    [st |-> r, ret |-> Append(x.ret, r.ret),
     name_adds |-> x.name_adds + (IF fact.key = "name" THEN 1 ELSE 0)]

\* one turn of the loop over name_patterns
NameStep(x, pat, msg, companion_id, t, ok) ==
    LET c == Search(msg, pat) IN
    IF c = 0 THEN x
    ELSE LET name == Title(msg[c])
             g == get_memory_by_key(x.st, "name", t, ok)
         IN IF g.ret = 0 \/ g.memories[g.ret].value # name
            THEN QuickAdd(x, g, NameFact(name, companion_id), t, ok)
            ELSE [x EXCEPT !.st = g]

\* one turn of the loop over location_patterns
LocationStep(x, pat, msg, companion_id, t, ok) ==
    LET c == Search(msg, pat) IN
    IF c = 0 THEN x
    ELSE QuickAdd(x, x.st, LocationFact(WordRun(msg, c), companion_id), t, ok)

\* one turn of the loop over preferences
PreferenceStep(x, pref, msg, companion_id, t, ok) ==
    LET c == Search(msg, pref) IN
    IF c = 0 THEN x
    ELSE QuickAdd(x, x.st,
                  PreferenceFact(pref, msg[c],
                                 IF pref.groups = 2 THEN msg[c + Len(pref.suffix) + 1]
                                 ELSE None,
                                 companion_id),
                  t, ok)

RECURSIVE NameLoop(_, _, _, _, _, _)
NameLoop(x, i, msg, companion_id, t, ok) ==
    IF i > Len(name_patterns) THEN x
    ELSE NameLoop(NameStep(x, name_patterns[i], msg, companion_id, t, ok),
                  i + 1, msg, companion_id, t, ok)

RECURSIVE LocationLoop(_, _, _, _, _, _)
LocationLoop(x, i, msg, companion_id, t, ok) ==
    IF i > Len(location_patterns) THEN x
    ELSE LocationLoop(LocationStep(x, location_patterns[i], msg, companion_id, t, ok),
                      i + 1, msg, companion_id, t, ok)

RECURSIVE PreferenceLoop(_, _, _, _, _, _)
PreferenceLoop(x, i, msg, companion_id, t, ok) ==
    IF i > Len(preferences) THEN x
    ELSE PreferenceLoop(PreferenceStep(x, preferences[i], msg, companion_id, t, ok),
                        i + 1, msg, companion_id, t, ok)

\* the three loops in program order, every clock reading of the call being t
extract_quick_facts(st, msg, companion_id, t, ok) ==
    PreferenceLoop(
        LocationLoop(
            NameLoop(QuickStart(st), 1, msg, companion_id, t, ok),
            1, msg, companion_id, t, ok),
        1, msg, companion_id, t, ok)

\* no record has been touched beyond the largest counter explored
AccessWithinBounds(ms) == \A i \in Positions(ms) : ms[i].access_count <= MaxAccess

ExtractQuickFacts(msg, companion_id, t, ok) ==
    \E x \in {extract_quick_facts(StoreNow, msg, companion_id, t, ok)} :
    /\ now <= t /\ t <= MaxClock
    /\ WithinBounds(x.st) /\ AccessWithinBounds(x.st.memories)
    /\ memories' = x.st.memories
    /\ index_by_key' = x.st.index_by_key
    /\ memory_file' = x.st.memory_file
    /\ uuid_next' = x.st.uuid_next
    /\ now' = t
    /\ UNCHANGED host
    /\ last' = [op |-> "extract_quick_facts", message |-> msg,
                companion_id |-> companion_id, ret |-> x.ret,
                name_adds |-> x.name_adds]
    /\ UNCHANGED export_file

----------------------------------------------------------------------------
(* MemoryExtractor.extract_from_conversation, _parse_extraction_response *)

(* The fields of the objects of a model reply are JSON values with their    *)
(* type: JString, JNumber (an integer), JFloat, JNull. The sanitized        *)
(* memory_data keeps the type of each Python value it holds, a str as       *)
(* JString, an int as JNumber, a float as JFloat, None as JNull.            *)

JNull == [t |-> "null"]

\* a JSON number with a fraction: whole + tenths/10
JFloat(whole, tenths) == [t |-> "float", whole |-> whole, tenths |-> tenths]

\* the values of the MemoryType enumeration
MemoryTypes ==
    {"personal_info", "preference", "life_event", "emotional_state", "interest",
     "relationship", "goal", "important_fact", "conversation_topic"}

ContentLimit == 500   \* [:500]
KeyLimit == 100       \* [:100]
ValueLimit == 200     \* [:200]
ImportanceDefault == 2

\* len(x) of the strings the replies explored hold: three long ones (600,
\* 150 and 250 characters), their prefixes, and short ones
StrLen(x) ==
    CASE x = "c600" -> 600
      [] x = "c600[:500]" -> 500
      [] x = "k150" -> 150
      [] x = "k150[:100]" -> 100
      [] x = "v250" -> 250
      [] x = "v250[:200]" -> 200
      [] x = "" -> 0
      [] x = "Plays chess" -> 11
      [] x = "hobby" -> 5
      [] x = "chess" -> 5

\* x[:n] on those strings
Slice(x, n) ==
    IF StrLen(x) <= n THEN x
    ELSE CASE x = "c600" /\ n = 500 -> "c600[:500]"
           [] x = "k150" /\ n = 100 -> "k150[:100]"
           [] x = "v250" /\ n = 200 -> "v250[:200]"

\* truthiness of a JSON value: `if item.get("key")`
JTruthy(v) ==
    CASE v.t = "null" -> FALSE
      [] v.t = "string" -> v.chars # ""
      [] v.t = "number" -> v.number # 0
      [] v.t = "float" -> v.whole # 0 \/ v.tenths # 0

\* item.get(k, default)
ItemGet(item, k, default) ==
    IF k \in DOMAIN item.fields THEN item.fields[k] ELSE default

\* `MemoryType(memory_type)` raises ValueError on anything but a value of the
\* enumeration, and the type falls back to important_fact
SanitizedType(item) ==
    LET memory_type == ItemGet(item, "type", JString("important_fact")) IN
    IF memory_type.t = "string" /\ memory_type.chars \in MemoryTypes
    THEN memory_type.chars
    ELSE "important_fact"

\* item.get(k, "")[:n] if item.get(k) else None
SanitizedText(item, k, n) ==
    LET v == ItemGet(item, k, JNull) IN
    IF JTruthy(v) THEN JString(Slice(v.chars, n)) ELSE JNull

\* min(5, v) and max(1, v) keep v when it is strictly inside, whatever its
\* type; a float keeps its fraction
ClampNumber(v) ==
    IF v.t = "number" THEN JNumber(max(1, min(5, v.number)))
    ELSE IF v.whole >= 5 THEN JNumber(5)
    ELSE IF v.whole < 1 \/ (v.whole = 1 /\ v.tenths = 0) THEN JNumber(1)
    ELSE v

\* the dict appended for one object of the reply
Sanitized(item) ==
    [type |-> SanitizedType(item),
     content |-> JString(Slice(ItemGet(item, "content", JString("")).chars, ContentLimit)),
     key |-> SanitizedText(item, "key", KeyLimit),
     value |-> SanitizedText(item, "value", ValueLimit),
     importance |-> ClampNumber(ItemGet(item, "importance", JNumber(ImportanceDefault)))]

\* the slices and the comparisons raise TypeError on a value of another type:
\* a content that is not a string, a truthy key or value that is not a
\* string, an importance that is not a number
SanitizeRaises(item) ==
    \/ ItemGet(item, "content", JString("")).t # "string"
    \/ \E k \in {"key", "value"} :
            JTruthy(ItemGet(item, k, JNull)) /\ ItemGet(item, k, JNull).t # "string"
    \/ ItemGet(item, "importance", JNumber(ImportanceDefault)).t \notin {"number", "float"}

(* A reply is a sequence of pieces: text without brackets, the text of one  *)
(* well-formed JSON array, or commentary that holds a bracketed phrase.     *)

TextPiece == [t |-> "text"]
JsonPiece(j) == [t |-> "json", json |-> j]
BracketPiece == [t |-> "brackets"]

\* the text around the array when the reply is a JSON object that holds it:
\* `{"memories": ` before and `}` after; neither holds a bracket
ObjectOpenPiece == [t |-> "object_open"]
ObjectClosePiece == [t |-> "object_close"]

\* re.search(r'\[.*\]', response, re.DOTALL) and json.loads: the match runs
\* from the first "[" of the reply to its last "]"; it parses only when
\* one piece holds brackets and that piece is the JSON array
ParsedArray(pieces) ==
    LET Holds(piece) == piece.t \in {"json", "brackets"}
        holders == SelectSeq(pieces, Holds)
    IN IF Len(holders) = 1 /\ holders[1].t = "json"
       THEN [found |-> TRUE, data |-> holders[1].json]
       ELSE [found |-> FALSE]

\* _parse_extraction_response: the sanitized dicts of the objects of the
\* array, or nothing when there is no array or a TypeError was raised
parse_extraction_response(pieces) ==
    LET parsed == ParsedArray(pieces) IN
    IF ~parsed.found THEN <<>>
    ELSE LET IsDict(x) == x.t = "object"
             dicts == SelectSeq(parsed.data.items, IsDict)
         IN IF \E n \in DOMAIN dicts : SanitizeRaises(dicts[n]) THEN <<>>
            ELSE [n \in DOMAIN dicts |-> Sanitized(dicts[n])]

\* a Python value of memory_data as the store holds it: a str and an int as
\* themselves, None as None, a float with its type
Untagged(v) ==
    CASE v.t = "string" -> v.chars
      [] v.t = "number" -> v.number
      [] v.t = "null" -> None
      [] v.t = "float" -> v

\* the arguments of the add_memory call for one memory_data
AiFact(d, companion_id) ==
    [memory_type |-> d.type, content |-> Untagged(d.content),
     key |-> Untagged(d.key), value |-> Untagged(d.value),
     importance |-> Untagged(d.importance),
     companion_id |-> companion_id, is_shared |-> TRUE]

\* the loop over memories: x carries the store and the list returned
RECURSIVE CommitLoop(_, _, _, _, _, _)
CommitLoop(x, data, i, companion_id, t, ok) ==
    IF i > Len(data) THEN x
    ELSE CommitLoop(QuickAdd(x, x.st, AiFact(data[i], companion_id), t, ok),
                    data, i + 1, companion_id, t, ok)

\* the user's messages of the whole conversation
UserMessagesOfAll(messages) ==
    LET IsUser(role) == role = "user"
    IN SelectSeq(messages, IsUser)

\* `[m["content"] for m in messages[-10:] if m["role"] == "user"]`, a
\* message being its role
UserMessages(messages) ==
    LET IsUser(role) == role = "user"
    IN SelectSeq(SubSeq(messages, max(1, Len(messages) - 9), Len(messages)), IsUser)

\* extract_from_conversation on the store st; reply: what generate_response
\* does, raise or return pieces of text. The result is the store after the
\* call, the list returned, whether the completion call was made and the
\* memory_data committed
extract_from_conversation(st, messages, companion_id, reply, t, ok) ==
    LET called == Len(UserMessages(messages)) > 0
        data == IF called /\ ~reply.raises
                THEN parse_extraction_response(reply.pieces) ELSE <<>>
        x == CommitLoop(QuickStart(st), data, 1, companion_id, t, ok)
    IN [st |-> x.st, ret |-> x.ret, called |-> called, committed |-> data]

ExtractFromConversation(messages, companion_id, reply, t, ok) ==
    \E x \in {extract_from_conversation(StoreNow, messages, companion_id, reply, t, ok)} :
       /\ now <= t /\ t <= MaxClock
       /\ WithinBounds(x.st)
       /\ memories' = x.st.memories
       /\ index_by_key' = x.st.index_by_key
       /\ memory_file' = x.st.memory_file
       /\ uuid_next' = x.st.uuid_next
       /\ now' = IF Len(x.committed) > 0 THEN t ELSE now
       /\ UNCHANGED host
       /\ last' = [op |-> "extract_from_conversation", messages |-> messages,
                   companion_id |-> companion_id, called |-> x.called,
                   reply |-> reply, committed |-> x.committed, ret |-> x.ret]
       /\ UNCHANGED export_file

----------------------------------------------------------------------------
(* MemoryManager.process_conversation, should_trigger_extraction *)

(* A message of a conversation is its role and its content, the content as  *)
(* the pattern extractor reads it: a sequence of tokens.                    *)

Message(role, content) == [role |-> role, content |-> content]

\* the roles of the messages, what extract_from_conversation reads of them
\* apart from the text it sends to the model
Roles(messages) == [i \in DOMAIN messages |-> messages[i].role]

\* the loop over reversed(messages): the content of the last message of the
\* user, the empty content when there is none
LastUserMessage(messages) ==
    LET users == {i \in DOMAIN messages : messages[i].role = "user"}
    IN IF users = {} THEN <<>>
       ELSE messages[CHOOSE i \in users : \A j \in users : j <= i].content

\* `len(messages) % 10 == 0 and len(messages) > 0`
DeepEvery == 10
DeepDue(n) == n % DeepEvery = 0 /\ n > 0

\* the predicate that is true every tenth message only
should_trigger_every_ten(message_count) ==
    message_count > 0 /\ message_count % 10 = 0

\* `message_count > 0 and message_count % 5 == 0`
TriggerEvery == 5
should_trigger_extraction(message_count) ==
    message_count > 0 /\ message_count % TriggerEvery = 0

\* get_stats: get_important_memories(3) touches the records it selects and
\* saves; the result read by process_conversation is len(self._memories)
StatsImportance == 3
get_stats(st, t, ok) ==
    LET ps == AtLeast(st.memories, StatsImportance)
        ms == TouchAll(st.memories, ps, [i \in DOMAIN ps |-> t])
    IN [memories |-> ms, index_by_key |-> st.index_by_key,
        memory_file |-> SavedFile(ms, st.memory_file, ok),
        uuid_next |-> st.uuid_next, total_memories |-> Len(ms)]

\* the store as the extractors hand it on, without what they return
StoreOf(r) ==
    [memories |-> r.memories, index_by_key |-> r.index_by_key,
     memory_file |-> r.memory_file, uuid_next |-> r.uuid_next]

\* process_conversation on the store st: the store after the call, whether
\* the pattern extractor and the AI extractor were invoked (quick, deep),
\* what the AI extractor did, and the dict returned
process_conversation(st, messages, companion_id, reply, t, ok) ==
    LET last_user_msg == LastUserMessage(messages)
        quick == Len(messages) > 0 /\ Len(last_user_msg) > 0
        q == IF quick THEN extract_quick_facts(st, last_user_msg, companion_id, t, ok)
             ELSE QuickStart(st)
        deep == DeepDue(Len(messages))
        d == IF deep
             THEN extract_from_conversation(StoreOf(q.st), Roles(messages),
                                            companion_id, reply, t, ok)
             ELSE [st |-> q.st, ret |-> <<>>, called |-> FALSE, committed |-> <<>>]
        new_memories == q.ret \o d.ret
        stats == get_stats(StoreOf(d.st), t, ok)
    IN [st |-> StoreOf(stats), quick |-> quick, deep |-> deep, called |-> d.called,
        committed |-> d.committed,
        ret |-> [new_memories |-> Len(new_memories),
                 total_memories |-> stats.total_memories,
                 memories |-> new_memories]]

ProcessConversation(messages, companion_id, reply, t, ok) ==
    \E x \in {process_conversation(StoreNow, messages, companion_id, reply, t, ok)} :
       /\ now <= t /\ t <= MaxClock
       /\ WithinBounds(x.st) /\ AccessWithinBounds(x.st.memories)
       /\ memories' = x.st.memories
       /\ index_by_key' = x.st.index_by_key
       /\ memory_file' = x.st.memory_file
       /\ uuid_next' = x.st.uuid_next
       /\ now' = t
       /\ UNCHANGED host
       /\ last' = [op |-> "process_conversation", messages |-> messages,
                   companion_id |-> companion_id, reply |-> reply,
                   quick |-> x.quick, deep |-> x.deep, called |-> x.called,
                   committed |-> x.committed, ret |-> x.ret]
       /\ UNCHANGED export_file

ShouldTriggerExtraction(message_count) ==
    /\ last' = [op |-> "should_trigger_extraction", message_count |-> message_count,
                ret |-> should_trigger_extraction(message_count)]
    /\ UNCHANGED <<memories, index_by_key, memory_file, export_file, uuid_next, now, host>>

----------------------------------------------------------------------------
(* KardiaApp.send_message, Conversation *)

\* Conversation.add_message
add_message(messages, role, content) == Append(messages, Message(role, content))

\* Conversation.get_context_messages: `self.messages[-max_messages:]`
ContextMessages == 20
get_context_messages(messages, max_messages) ==
    SubSeq(messages, max(1, Len(messages) - max_messages + 1), Len(messages))

\* the messages of the user that no reply has answered yet: the threads
\* generate_async has started and that have not called back
Pending(messages) ==
    Cardinality({i \in DOMAIN messages : messages[i].role = "user"})
    - Cardinality({i \in DOMAIN messages : messages[i].role = "assistant"})

\* send_message up to generate_async: the message joins the conversation and
\* get_context_summary reads the store, touching and saving as it does
SendMessage(message, t, ok) ==
    LET c == get_memories_for_context(memories, ContextDefault,
                 [i \in 1..Len(AtLeast(memories, ContextImportance)) |-> t],
                 [i \in 1..min(ContextRecent, Len(memories)) |-> t]) IN
    /\ Len(conversation) < MaxConversation
    /\ Pending(conversation) < MaxPending
    /\ now <= t /\ t <= MaxClock
    /\ conversation' = add_message(conversation, "user", message)
    /\ memories' = c.memories
    /\ memory_file' = SavedFile(c.memories, SavedFile(c.after1, memory_file, ok), ok)
    /\ now' = t
    /\ last' = [op |-> "send_message", message |-> message,
                total |-> Len(conversation')]
    /\ UNCHANGED <<index_by_key, export_file, uuid_next, workers>>

\* on_response, the callback of generate_async: the reply joins the
\* conversation and process_conversation is handed the context messages;
\* reply is what the model answers if the AI extractor asks it
OnResponse(response, reply, t, ok) ==
    /\ Pending(conversation) > 0
    /\ Len(conversation) < MaxConversation
    /\ now <= t /\ t <= MaxClock
    /\ conversation' = add_message(conversation, "assistant", response)
    /\ \E x \in {process_conversation(StoreNow,
                        get_context_messages(conversation', ContextMessages),
                        "A", reply, t, ok)} :
          /\ WithinBounds(x.st)
          /\ memories' = x.st.memories
          /\ index_by_key' = x.st.index_by_key
          /\ memory_file' = x.st.memory_file
          /\ uuid_next' = x.st.uuid_next
          /\ last' = [op |-> "on_response", total |-> Len(conversation'),
                      handed |-> Len(get_context_messages(conversation', ContextMessages)),
                      quick |-> x.quick, deep |-> x.deep, ret |-> x.ret]
    /\ now' = t
    /\ UNCHANGED <<export_file, workers>>

----------------------------------------------------------------------------
(* MemoryStore.add_memory called from several threads *)

(* add_memory holds no lock, so a thread may be suspended between any two   *)
(* of its statements. A worker is inside add_memory from the lookup of the  *)
(* key to the return; its pc names the statement it will run next, and it   *)
(* refers to a record by the record's id, as a reference stays on its       *)
(* object wherever the object is in the list.                               *)

AllIdle == \A w \in Workers : workers[w] = Idle

\* `if key and key in self._index_by_key: existing = self._index_by_key[key]`,
\* after the Memory of the call was built
AddEnter(w, a, t1, t2) ==
    /\ workers[w] = Idle
    /\ now <= t1 /\ t1 <= t2 /\ t2 <= MaxClock
    /\ IF KeyIndexed(index_by_key, a.key)
       THEN LET q == index_by_key[a.key] IN
            /\ workers' = [workers EXCEPT ![w] =
                    [pc |-> "update", args |-> a,
                     existing |-> IF q = 0 THEN 0 ELSE memories[q].id]]
            /\ UNCHANGED uuid_next
       ELSE /\ uuid_next <= MaxUuid
            /\ workers' = [workers EXCEPT ![w] =
                    [pc |-> "append", args |-> a,
                     memory |-> NewMemory(a, uuid_next, t1, t2)]]
            /\ uuid_next' = uuid_next + 1
    /\ now' = t2
    /\ last' = [op |-> "add_memory_enter", worker |-> w, args |-> a]
    /\ UNCHANGED <<memories, index_by_key, memory_file, export_file, conversation>>

\* the four assignments to `existing`, self.save() and the return
AddUpdate(w, t3, ok) ==
    /\ workers[w].pc = "update"
    /\ now <= t3 /\ t3 <= MaxClock
    /\ LET q == FirstWithId(memories, workers[w].existing) IN
       /\ memories' = IF q = 0 THEN memories
                      ELSE UpsertExisting(memories, q, workers[w].args, t3)
       /\ last' = [op |-> "add_memory", args |-> workers[w].args,
                   created |-> FALSE, ret |-> q]
    /\ memory_file' = SavedFile(memories', memory_file, ok)
    /\ workers' = [workers EXCEPT ![w] = Idle]
    /\ now' = t3
    /\ UNCHANGED <<index_by_key, export_file, uuid_next, conversation>>

\* `self._memories.append(memory)`
AddAppend(w) ==
    /\ workers[w].pc = "append"
    /\ Len(memories) < MaxMem
    /\ memories' = Append(memories, workers[w].memory)
    /\ workers' = [workers EXCEPT ![w].pc = "index"]
    /\ last' = [op |-> "add_memory_append", worker |-> w]
    /\ UNCHANGED <<index_by_key, memory_file, export_file, uuid_next, now, conversation>>

\* `if key: self._index_by_key[key] = memory`
AddIndex(w) ==
    /\ workers[w].pc = "index"
    /\ index_by_key' =
            IF Truthy(workers[w].memory.key)
            THEN DictSet(index_by_key, workers[w].memory.key,
                         FirstWithId(memories, workers[w].memory.id))
            ELSE index_by_key
    /\ workers' = [workers EXCEPT ![w].pc = "save"]
    /\ last' = [op |-> "add_memory_index", worker |-> w]
    /\ UNCHANGED <<memories, memory_file, export_file, uuid_next, now, conversation>>

\* `self.save()` and the return
AddSave(w, ok) ==
    /\ workers[w].pc = "save"
    /\ memory_file' = SavedFile(memories, memory_file, ok)
    /\ workers' = [workers EXCEPT ![w] = Idle]
    /\ last' = [op |-> "add_memory", args |-> workers[w].args, created |-> TRUE,
                ret |-> FirstWithId(memories, workers[w].memory.id)]
    /\ UNCHANGED <<memories, index_by_key, export_file, uuid_next, now, conversation>>

----------------------------------------------------------------------------
(* Specification *)

\* MemoryStore.__init__ with no memories.json in data_dir
Init ==
    /\ memories = <<>>
    /\ index_by_key = EmptyDict
    /\ memory_file = NoFile
    /\ export_file = NoFile
    /\ uuid_next = 1
    /\ now = 1
    /\ last = [op |-> "init"]
    /\ conversation = <<>>
    /\ workers = [w \in Workers |-> Idle]

\* the ids a caller may pass: those of the records, and one no record has
CallIds == {memories[i].id : i \in Positions(memories)} \cup {0}

(* Records of the files a user may pick for import *)

\* a full record on the key "name"
ItemZed ==
    JObject([id |-> 8, memory_type |-> "personal_info", content |-> "Name is Zed",
             key |-> "name", value |-> "Zed", importance |-> 4,
             created_at |-> 1, last_accessed |-> 1, access_count |-> 0,
             companion_id |-> "A", conversation_id |-> None, is_shared |-> TRUE])

\* an old-format record: no key, no timestamps, no is_shared
ItemOld ==
    JObject([id |-> 7, memory_type |-> "interest", content |-> "Old note",
             importance |-> 8, companion_id |-> "B"])

\* a companion-scoped record of no companion, on the same key
ItemPrivate ==
    JObject([id |-> 9, memory_type |-> "goal", content |-> "Private",
             key |-> "name", value |-> "Yan", importance |-> 1,
             created_at |-> 1, last_accessed |-> 1, access_count |-> 0,
             companion_id |-> "", conversation_id |-> None, is_shared |-> FALSE])

\* a record without content
ItemNoContent == JObject([id |-> 6, memory_type |-> "goal"])

\* files that import_memories rejects: not JSON, and an envelope whose
\* memories entry is a number
BadFiles ==
    { NotJson, JsonFile(JObject([version |-> "1.0", memories |-> JNumber(5)])) }

\* bare lists and an envelope of records
UploadFiles ==
    { JsonFile(JArray(<<ItemZed, ItemPrivate>>)),
      JsonFile(JArray(<<ItemOld>>)),
      JsonFile(JArray(<<ItemNoContent, ItemZed>>)),
      JsonFile(JObject([version |-> "0.9", memories |-> JArray(<<ItemPrivate>>)])) }

\* time passes between two calls
Tick ==
    /\ now < MaxClock
    /\ now' = now + 1
    /\ UNCHANGED host
    /\ last' = [op |-> "tick"]
    /\ UNCHANGED <<memories, index_by_key, memory_file, export_file, uuid_next>>

(* Spec: the record list and the key index under add_memory, delete_memory  *)
(* and import_memories, with a writable backing file and a clock that does  *)
(* not advance                                                              *)
Next ==
    \/ \E a \in AddArgs : AddMemory(a, now, now, now, Written)
    \/ \E id \in CallIds : DeleteMemory(id, Written)
    \/ \E f \in BadFiles \cup UploadFiles, merge \in BOOLEAN :
            ImportMemories(f, "upload", merge, Written)

Spec == Init /\ [][Next]_vars

(* SpecUpsert: repeated add_memory calls on one key, on stores that deletes  *)
(* and a replacing import have shaped                                       *)

NextUpsert ==
    \/ \E a \in {ArgAlice, ArgBob, ArgRaw, ArgRawAgain} : AddMemory(a, now, now, now, Written)
    \/ \E id \in CallIds : DeleteMemory(id, Written)
    \/ ImportMemories(JsonFile(JArray(<<ItemZed, ItemPrivate>>)), "upload", FALSE, Written)

SpecUpsert == Init /\ [][NextUpsert]_vars

(* SpecMerge: imports that collide with keyed records, while time passes    *)

NextMerge ==
    \/ \E a \in {ArgAlice, ArgBob} : AddMemory(a, now, now, now, Written)
    \/ Tick
    \/ \E f \in UploadFiles, merge \in BOOLEAN : ImportMemories(f, "upload", merge, Written)

SpecMerge == Init /\ [][NextMerge]_vars

(* SpecImportance: the importance field under every operation that writes it *)

\* the importance values a caller may pass
CallImportances == {-1, 0, 1, 3, 5, 6, 9}

ImportanceArgs == {ArgAlice, ArgBob, ArgRaw}

NextImportance ==
    \/ \E a \in ImportanceArgs : AddMemory(a, now, now, now, Written)
    \/ \E id \in CallIds, v \in CallImportances : UpdateMemoryImportance(id, v, Written)
    \/ ImportMemories(JsonFile(JArray(<<ItemOld>>)), "upload", TRUE, Written)

SpecImportance == Init /\ [][NextImportance]_vars

(* SpecCompanion: shared and companion-scoped records and the per-companion *)
(* query                                                                    *)

Companions == {"A", "B", ""}

NextCompanion ==
    \/ \E a \in AddArgs : AddMemory(a, now, now, now, Written)
    \/ \E id \in CallIds : DeleteMemory(id, Written)
    \/ \E f \in {JsonFile(JArray(<<ItemOld>>)), JsonFile(JArray(<<ItemZed, ItemPrivate>>))} :
            ImportMemories(f, "upload", TRUE, Written)
    \/ \E c \in Companions : GetMemoriesForCompanion(c)

SpecCompanion == Init /\ [][NextCompanion]_vars

(* SpecExport: a store is built, exported as JSON, and the export file is   *)
(* imported                                                                 *)

\* a keyed record, and one with an empty key and an importance out of range
ExportArgs == {ArgAlice, ArgHiking, ArgRaw}

NextExport ==
    \/ /\ export_file = NoFile
       /\ \/ \E a \in ExportArgs : AddMemory(a, now, now, now, Written)
          \/ \E id \in CallIds : DeleteMemory(id, Written)
          \/ ImportMemories(JsonFile(JArray(<<ItemZed, ItemPrivate>>)), "upload", FALSE, Written)
          \/ \E format \in {"json", "txt", "csv"}, ok \in BOOLEAN : ExportMemories(format, ok)
    \/ /\ export_file # NoFile
       /\ \E merge \in BOOLEAN : ImportMemories(export_file, "export", merge, Written)

SpecExport == Init /\ [][NextExport]_vars

(* SpecBatch: imports of files that hold invalid items among valid ones,    *)
(* and of files that are rejected as a whole                                *)

\* a record with a field the dataclass does not have
ItemUnknownField ==
    JObject([id |-> 5, memory_type |-> "goal", content |-> "Mood", mood |-> "happy"])

\* lists and an envelope with items that Memory.from_dict rejects or that
\* are not objects, before, between and after valid items
BatchFiles ==
    { JsonFile(JArray(<<ItemNoContent, ItemZed>>)),
      JsonFile(JArray(<<ItemZed, JNumber(5), ItemPrivate>>)),
      JsonFile(JObject([version |-> "1.0",
                        memories |-> JArray(<<ItemUnknownField, ItemOld>>)])),
      JsonFile(JArray(<<JString("note"), ItemUnknownField>>)),
      JsonFile(JArray(<<>>)) }

\* files that end in a failure result: absent, not JSON, a JSON number, an
\* envelope whose memories entry is a number
RejectedFiles ==
    BadFiles \cup {NoFile, JsonFile(JNumber(5))}

NextBatch ==
    \/ \E a \in {ArgAlice, ArgHiking} : AddMemory(a, now, now, now, Written)
    \/ \E id \in CallIds : DeleteMemory(id, Written)
    \/ \E f \in BatchFiles \cup RejectedFiles, merge \in BOOLEAN :
            ImportMemories(f, "upload", merge, Written)

SpecBatch == Init /\ [][NextBatch]_vars

(* SpecReads: the reads of the store, touching and not, while the clock     *)
(* advances                                                                 *)

CallKeys == {"name", "age", ""}
CallTypes == {"personal_info", "interest", "goal"}
CallLimits == {-1, 0, 1, 20}
CallQueries == {"ALI", "hik", "", "zzz"}

NextReads ==
    \/ \E a \in {ArgAlice, ArgHiking} : AddMemory(a, now, now, now, Written)
    \/ ImportMemories(JsonFile(JArray(<<ItemZed, ItemPrivate>>)), "upload", FALSE, Written)
    \/ \E key \in CallKeys, t \in now..MaxClock : GetMemoryByKey(key, t, Written)
    \/ \E memory_type \in CallTypes, ts \in ClockReadings(Len(memories)) :
            GetMemoriesByType(memory_type, ts, Written)
    \/ \E min_importance \in {3, 5}, ts \in ClockReadings(Len(memories)) :
            GetImportantMemories(min_importance, ts, Written)
    \/ \E limit \in CallLimits, n \in 0..Len(memories) : \E ts \in ClockReadings(n) :
            GetRecentMemories(limit, ts, Written)
    \/ \E query \in CallQueries : SearchMemories(query)

SpecReads == Init /\ [][NextReads]_vars

(* SpecContext: the context list and the summary, on stores loaded from a   *)
(* backing file                                                             *)

\* a record of a backing file
Stored(id, memory_type, content, key, value, importance, last_accessed) ==
    JObject([id |-> id, memory_type |-> memory_type, content |-> content,
             key |-> key, value |-> value, importance |-> importance,
             created_at |-> 0, last_accessed |-> last_accessed, access_count |-> 0,
             companion_id |-> "A", conversation_id |-> None, is_shared |-> TRUE])

\* eight records: a name, six preferences of mixed importance, some keyed
\* and one with a key and an empty value, and a conversation topic
LargeStore ==
    JsonFile(JArray(<<
        Stored(12, "preference", "Likes tea", None, None, 2, 1),
        Stored(11, "personal_info", "User's name is Alice", "name", "Alice", 4, 0),
        Stored(13, "preference", "Likes jazz", "music", "jazz", 5, 0),
        Stored(14, "preference", "Dislikes rain", "weather", "", 3, 1),
        Stored(15, "preference", "Likes cats", None, None, 1, 0),
        Stored(16, "preference", "Likes green", "colour", "green", 2, 1),
        Stored(17, "preference", "Likes chess", None, "chess", 4, 0),
        Stored(18, "conversation_topic", "Talks about space", None, None, 1, 1) >>))

\* one keyed personal_info record
SmallStore ==
    JsonFile(JArray(<<
        Stored(11, "personal_info", "User's name is Alice", "name", "Alice", 5, 0) >>))

StoreFiles == {NoFile, NotJson, SmallStore, LargeStore}

\* MemoryStore.__init__ on a data_dir that holds one of the store files
InitLoaded ==
    /\ memory_file \in StoreFiles
    /\ memories = load(memory_file)
    /\ index_by_key = rebuild_index(memories)
    /\ export_file = NoFile
    /\ uuid_next = 1
    /\ now = 1
    /\ last = [op |-> "init"]
    /\ conversation = <<>>
    /\ workers = [w \in Workers |-> Idle]

CallCounts == {0, 1, 3, 5, ContextDefault}

\* n readings of a clock that stands still during the call
Standing(n) == [i \in 1..n |-> now]

NextContext ==
    \/ \E max_count \in CallCounts :
            GetMemoriesForContext(max_count, Standing(ContextTouches(memories)),
                                  Written, Written)
    \/ GetContextSummary(Standing(ContextTouches(memories)), Written, Written)
    \/ \E id \in {12, 15} : UpdateMemoryImportance(id, 4, Written)
    \/ \E id \in {0, 11, 13} : DeleteMemory(id, Written)
    \/ Tick

SpecContext == InitLoaded /\ [][NextContext]_vars

(* SpecTime: the timestamps of the records under creation, keyed upsert,   *)
(* touching reads and import, each call reading an advancing clock          *)

\* a record written by hand or by another tool: a creation time, no
\* last_accessed
ItemStale ==
    JObject([id |-> 4, memory_type |-> "life_event", content |-> "Moved house",
             created_at |-> 2])

NextTime ==
    \/ \E a \in {ArgAlice, ArgBob} : \E t1, t2, t3 \in now..MaxClock :
            AddMemory(a, t1, t2, t3, Written)
    \/ \E t \in now..MaxClock : GetMemoryByKey("name", t, Written)
    \/ \E ts \in ClockReadings(Len(memories)) : GetRecentMemories(ContextRecent, ts, Written)
    \/ \E f \in {JsonFile(JArray(<<ItemZed>>)), JsonFile(JArray(<<ItemStale>>))},
           merge \in BOOLEAN : ImportMemories(f, "upload", merge, Written)
    \/ Tick

SpecTime == Init /\ [][NextTime]_vars

(* SpecPersist: every operation that saves, with a writable backing file    *)

NextPersist ==
    \/ \E a \in {ArgAlice, ArgRaw} : AddMemory(a, now, now, now, Written)
    \/ \E id \in CallIds : DeleteMemory(id, Written)
    \/ \E id \in CallIds : UpdateMemoryImportance(id, 4, Written)
    \/ \E f \in BadFiles \cup {JsonFile(JArray(<<ItemZed, ItemPrivate>>))} :
            ImportMemories(f, "upload", FALSE, Written)
    \/ \E key \in {"name", "age"} : GetMemoryByKey(key, now, Written)
    \/ GetMemoriesByType("personal_info", Standing(Len(OfType(memories, "personal_info"))),
                          Written)
    \/ GetImportantMemories(ContextImportance,
                            Standing(Len(AtLeast(memories, ContextImportance))), Written)
    \/ GetRecentMemories(1, Standing(min(1, Len(memories))), Written)
    \/ GetMemoriesForContext(ContextDefault, Standing(ContextTouches(memories)),
                             Written, Written)
    \/ GetContextSummary(Standing(ContextTouches(memories)), Written, Written)

SpecPersist == Init /\ [][NextPersist]_vars

(* SpecSaveFail: the operations that save, each save ending in any of the   *)
(* three ways                                                               *)

NextSaveFail ==
    \/ \E ok \in SaveOutcomes : AddMemory(ArgAlice, now, now, now, ok)
    \/ \E id \in CallIds, ok \in SaveOutcomes : DeleteMemory(id, ok)
    \/ \E id \in CallIds, ok \in SaveOutcomes : UpdateMemoryImportance(id, 4, ok)
    \/ \E ok \in SaveOutcomes :
            ImportMemories(JsonFile(JArray(<<ItemZed>>)), "upload", TRUE, ok)
    \/ \E ok \in SaveOutcomes : GetMemoryByKey("name", now, ok)

SpecSaveFail == Init /\ [][NextSaveFail]_vars

(* SpecQuick: the pattern extractor on the user's messages, on stores that  *)
(* manual entries and deletes have shaped                                   *)

\* "My name is Alice" / "my name is alexander, call me alex" /
\* "i live in oslo. i love hiking" /
\* "I am happy and my favorite colour is green" / "hello"
QuickMessages ==
    { <<"My", "name", "is", "Alice">>,
      <<"my", "name", "is", "alexander", ",", "call", "me", "alex">>,
      <<"i", "live", "in", "oslo", ".", "i", "love", "hiking">>,
      <<"I", "am", "happy", "and", "my", "favorite", "colour", "is", "green">>,
      <<"hello">> }

NextQuick ==
    \/ \E msg \in QuickMessages, c \in {"A", "B"} : ExtractQuickFacts(msg, c, now, Written)
    \/ AddMemory(ArgBob, now, now, now, Written)
    \/ \E id \in CallIds : DeleteMemory(id, Written)
    \/ Tick

SpecQuick == Init /\ [][NextQuick]_vars

(* SpecAi: the AI extractor on conversations and model replies              *)

\* an object of a reply
AiItem(fields) == JObject(fields)

\* a well-formed fact
FactChess ==
    AiItem([type |-> JString("interest"), content |-> JString("Plays chess"),
            key |-> JString("hobby"), value |-> JString("chess"),
            importance |-> JNumber(4)])

\* an unknown type, texts beyond their limits, an importance above the range
FactLong ==
    AiItem([type |-> JString("mood"), content |-> JString("c600"),
            key |-> JString("k150"), value |-> JString("v250"),
            importance |-> JNumber(9)])

\* a content and nothing else
FactBare == AiItem([content |-> JString("Plays chess")])

\* a null type, empty texts, an importance below the range
FactEmpty ==
    AiItem([type |-> JNull, content |-> JString(""), key |-> JString(""),
            value |-> JString(""), importance |-> JNumber(0)])

\* an importance with a fraction
FactFraction ==
    AiItem([type |-> JString("interest"), content |-> JString("Plays chess"),
            importance |-> JFloat(4, 5)])

\* a value that is a number
FactNumberValue ==
    AiItem([content |-> JString("Plays chess"), value |-> JNumber(25)])

Returned(pieces) == [raises |-> FALSE, pieces |-> pieces]

AiReplies ==
    { [raises |-> TRUE],
      Returned(<<TextPiece>>),
      Returned(<<BracketPiece>>),
      Returned(<<TextPiece, JsonPiece(JArray(<<FactChess, FactBare>>)), TextPiece>>),
      Returned(<<JsonPiece(JArray(<<FactChess>>)), BracketPiece>>),
      Returned(<<ObjectOpenPiece, JsonPiece(JArray(<<FactChess>>)), ObjectClosePiece>>),
      Returned(<<JsonPiece(JArray(<<FactLong, JNumber(5), FactEmpty>>))>>),
      Returned(<<JsonPiece(JArray(<<FactFraction>>))>>),
      Returned(<<JsonPiece(JArray(<<FactChess, FactNumberValue>>))>>) }

\* the roles of the messages of a conversation: none, no user message, a
\* user message, and a user message followed by ten of the assistant
Conversations ==
    { <<>>, <<"assistant">>, <<"user", "assistant">>,
      <<"user">> \o [i \in 1..10 |-> "assistant"] }

NextAi ==
    \/ \E messages \in Conversations, reply \in AiReplies :
            ExtractFromConversation(messages, "A", reply, now, Written)
    \/ \E id \in CallIds : DeleteMemory(id, Written)
    \/ Tick

SpecAi == Init /\ [][NextAi]_vars

(* SpecCadence: process_conversation on conversations of every length up   *)
(* to MaxCount, and the trigger predicate on every count                    *)

\* a conversation of n messages that the user opens, user and assistant
\* taking turns, every message of the user having the same content
Alternating(n, content) ==
    [i \in 1..n |-> IF i % 2 = 1 THEN Message("user", content)
                    ELSE Message("assistant", <<"hello">>)]

CadenceContents == { <<"hello">>, <<"My", "name", "is", "Alice">> }

CadenceReplies ==
    { [raises |-> TRUE], Returned(<<JsonPiece(JArray(<<FactChess>>))>>) }

\* the reply matters on the turns the AI extractor runs
NextCadence ==
    \/ \E n \in 0..MaxCount, content \in CadenceContents :
            \E reply \in IF DeepDue(n) THEN CadenceReplies ELSE {[raises |-> TRUE]} :
                ProcessConversation(Alternating(n, content), "A", reply, now, Written)
    \/ \E n \in -1..MaxCount : ShouldTriggerExtraction(n)
    \/ DeleteMemory(1, Written)

SpecCadence == Init /\ [][NextCadence]_vars

(* SpecThreads: two threads inside add_memory at once, and deletes           *)

ThreadArgs == {ArgAlice, ArgBob, ArgHiking}

NextThreads ==
    \/ \E w \in Workers, a \in ThreadArgs : AddEnter(w, a, now, now)
    \/ \E w \in Workers : AddUpdate(w, now, Written)
    \/ \E w \in Workers : AddAppend(w)
    \/ \E w \in Workers : AddIndex(w)
    \/ \E w \in Workers : AddSave(w, Written)
    \/ \E id \in CallIds : DeleteMemory(id, Written)

SpecThreads == Init /\ [][NextThreads]_vars

(* SpecShared: imports of old-format and companion-scoped records, into     *)
(* stores that entries and deletes have shaped                              *)

\* a companion-scoped record without key
ItemScoped ==
    JObject([id |-> 3, memory_type |-> "relationship", content |-> "Sister Ann",
             companion_id |-> "B", is_shared |-> FALSE])

SharedFiles ==
    { JsonFile(JArray(<<ItemOld, ItemPrivate>>)),
      JsonFile(JArray(<<ItemPrivate, ItemOld>>)),
      JsonFile(JObject([version |-> "0.9",
                        memories |-> JArray(<<ItemOld, ItemScoped>>)])) }

NextShared ==
    \/ \E a \in {ArgAlice, ArgHiking} : AddMemory(a, now, now, now, Written)
    \/ \E id \in CallIds : DeleteMemory(id, Written)
    \/ \E f \in SharedFiles, merge \in BOOLEAN : ImportMemories(f, "upload", merge, Written)

SpecShared == Init /\ [][NextShared]_vars

(* SpecChat: the chat flow: the user sends messages, each reply comes back  *)
(* and the conversation is processed, while memories are deleted in the     *)
(* memory dialog                                                            *)

\* the user introduces themself or not, and goes on with small talk
ChatMessages(messages) ==
    IF messages = <<>> THEN CadenceContents ELSE { <<"hello">> }

NextChat ==
    \/ \E message \in ChatMessages(conversation) : SendMessage(message, now, Written)
    \/ \E reply \in CadenceReplies : OnResponse(<<"hello">>, reply, now, Written)
    \/ \E id \in CallIds : DeleteMemory(id, Written)

SpecChat == Init /\ [][NextChat]_vars

(* SpecIndex: the key index under add_memory, delete_memory, import_memories *)
(* and load                                                                 *)

NextIndex ==
    \/ \E a \in {ArgAlice, ArgBob, ArgHiking} : AddMemory(a, now, now, now, Written)
    \/ \E id \in CallIds : DeleteMemory(id, Written)
    \/ \E f \in UploadFiles, merge \in BOOLEAN : ImportMemories(f, "upload", merge, Written)
    \/ Load

SpecIndex == Init /\ [][NextIndex]_vars

(* SpecScope: writes on behalf of one companion, directly and through the   *)
(* two extractors, on stores that hold records scoped to another            *)

\* a companion-specific entry of companion A on the key "name"
ArgNickname ==
    [memory_type |-> "personal_info", content |-> "Goes by Ally",
     key |-> "name", value |-> "Ally", importance |-> 2,
     companion_id |-> "A", is_shared |-> FALSE]

ScopeMessages == { <<"My", "name", "is", "Alice">>, <<"hello">> }

NextScope ==
    \/ \E a \in {ArgNickname, ArgHiking, ArgBob} : AddMemory(a, now, now, now, Written)
    \/ \E msg \in ScopeMessages, c \in {"A", "B"} : ExtractQuickFacts(msg, c, now, Written)
    \/ \E c \in {"A", "B"}, reply \in CadenceReplies :
            ExtractFromConversation(<<"user">>, c, reply, now, Written)
    \/ \E id \in CallIds : DeleteMemory(id, Written)

SpecScope == Init /\ [][NextScope]_vars

(* SpecSkip: imports of files with items that the loop skips, among them an *)
(* item on an indexed key whose importance is a string                      *)

\* a record on the key "name" whose importance is the string "high"
ItemHigh ==
    JObjectText([id |-> 2, memory_type |-> "personal_info", content |-> "Name is Hal",
                 key |-> "name", value |-> "Hal", importance |-> "high"],
                {"importance"})

SkipFiles ==
    { JsonFile(JArray(<<ItemNoContent, ItemZed>>)),
      JsonFile(JArray(<<ItemZed, JNumber(5)>>)),
      JsonFile(JArray(<<ItemUnknownField>>)) }

\* the file with ItemHigh is picked while the key "name" is indexed
NextSkip ==
    \/ \E a \in {ArgAlice, ArgHiking} : AddMemory(a, now, now, now, Written)
    \/ \E id \in CallIds : DeleteMemory(id, Written)
    \/ \E f \in SkipFiles, merge \in BOOLEAN : ImportMemories(f, "upload", merge, Written)
    \/ /\ KeyIndexed(index_by_key, "name")
       /\ \E f \in {JsonFile(JArray(<<ItemHigh>>)), JsonFile(JArray(<<ItemHigh, ItemZed>>))} :
            ImportMemories(f, "upload", TRUE, Written)

SpecSkip == Init /\ [][NextSkip]_vars

----------------------------------------------------------------------------
(* Properties *)

KeysHeld(ms, k) == {i \in Positions(ms) : ms[i].key = k}
IdsHeld(ms, id) == {i \in Positions(ms) : ms[i].id = id}

\* C1: in every reachable state at most one record of the store holds any
\* given non-null key.
C1_OneRecordPerKey ==
    \A i, j \in Positions(memories) :
        (i # j /\ memories[i].key # None) => memories[i].key # memories[j].key

\* C2: when add_memory is called twice in a row with the same non-null key and
\* a different value or content, and the first call created the record, then
\* after the second call exactly one record holds that key, the list is no
\* longer than before, the record is the one of the first call with its id,
\* its value and content are those of the second call, and its importance is
\* the larger of the two calls' importances.
C2_UpsertTwice ==
    [][ ( /\ last.op = "add_memory" /\ last.created
          /\ last'.op = "add_memory"
          /\ last'.args.key = last.args.key
          /\ last.args.key # None
          /\ (last'.args.value # last.args.value \/ last'.args.content # last.args.content) )
        => ( /\ Len(memories') = Len(memories)
             /\ Cardinality(KeysHeld(memories', last.args.key)) = 1
             /\ last'.ret = last.ret
             /\ memories'[last.ret].id = memories[last.ret].id
             /\ memories'[last.ret].value = last'.args.value
             /\ memories'[last.ret].content = last'.args.content
             /\ memories'[last.ret].importance
                    = max(last.args.importance, last'.args.importance) ) ]_vars

\* C3: in every reachable state every record has an importance in 1..5.
C3_ImportanceInRange ==
    \A i \in Positions(memories) : memories[i].importance \in 1..5

\* C4: in every reachable state the records have pairwise distinct ids.
C4_DistinctIds ==
    \A i, j \in Positions(memories) : i # j => memories[i].id # memories[j].id

\* C5: delete_memory(id) returns true iff a record with that id was in the
\* store; after it returns true no record with that id remains and the key of
\* the removed record, if it had one, is not in the key index; when it returns
\* false the record list and the key index are unchanged.
C5_Delete ==
    [][ last'.op = "delete_memory" =>
        LET id == last'.memory_id
            p == FirstWithId(memories, id)
        IN /\ last'.ret = (IdsHeld(memories, id) # {})
           /\ last'.ret =>
                /\ IdsHeld(memories', id) = {}
                /\ memories[p].key # None => memories[p].key \notin DOMAIN index_by_key'
           /\ ~last'.ret => (memories' = memories /\ index_by_key' = index_by_key) ]_vars

\* C6: update_memory_importance(id, v) on an id some record has sets the
\* importance of the first record with that id to min(5, max(1, v)) and
\* returns true, changing no other record, no other field and not the key
\* index; on an unknown id it returns false and changes nothing.
C6_UpdateImportance ==
    [][ last'.op = "update_memory_importance" =>
        LET id == last'.memory_id
            v == last'.importance
            hits == IdsHeld(memories, id)
            clamped == IF v < 1 THEN 1 ELSE IF v > 5 THEN 5 ELSE v
        IN /\ index_by_key' = index_by_key
           /\ IF hits = {}
              THEN last'.ret = FALSE /\ memories' = memories
              ELSE /\ last'.ret = TRUE
                   /\ Len(memories') = Len(memories)
                   /\ \A i \in Positions(memories) :
                        IF i \in hits /\ \A j \in hits : i <= j
                        THEN /\ memories'[i].importance = clamped
                             /\ \A f \in Fields \ {"importance"} :
                                    memories'[i][f] = memories[i][f]
                        ELSE memories'[i] = memories[i] ]_vars

\* a call with an importance above the range has found its record, in a store
\* where two records carry the call's id, and left it at 5
C6_Witness ==
    /\ last.op = "update_memory_importance" /\ last.ret /\ last.importance = 9
    /\ Cardinality(IdsHeld(memories, last.memory_id)) = 2
    /\ memories[1].importance = 5 /\ memories[2].importance = 8

\* C7: get_memories_for_companion(c) returns every shared record, then every
\* non-shared record whose companion_id is c, each once, and no other record.
C7_ForCompanion ==
    last.op = "get_memories_for_companion" =>
        LET r == last.ret
            c == last.companion_id
            shared == {i \in Positions(memories) : memories[i].is_shared}
            specific == {i \in Positions(memories) :
                            ~memories[i].is_shared /\ memories[i].companion_id = c}
        IN /\ {r[n] : n \in DOMAIN r} = shared \cup specific
           /\ \A n, k \in DOMAIN r : n # k => r[n] # r[k]
           /\ \A n, k \in DOMAIN r :
                (n < k /\ r[k] \in shared) => r[n] \in shared

\* the query has returned a shared record of the companion and then a record
\* scoped to it
C7_Witness ==
    /\ last.op = "get_memories_for_companion" /\ last.companion_id = "A"
    /\ Len(last.ret) = 2
    /\ memories[last.ret[1]].is_shared /\ memories[last.ret[1]].companion_id = "A"
    /\ ~memories[last.ret[2]].is_shared

\* C8: in every reachable state every record is shared or has a non-empty
\* companion_id.
C8_SharedOrOwned ==
    \A i \in Positions(memories) :
        memories[i].is_shared \/ memories[i].companion_id # ""

\* the (key or id, memory_type, value, importance) tuple of a record: the id
\* stands in when the record has no key
RecordTuple(m) ==
    <<m.key, IF m.key = None THEN m.id ELSE 0, m.memory_type, m.value, m.importance>>

TuplesOf(ms) == {RecordTuple(ms[i]) : i \in Positions(ms)}

\* the export file holds the JSON export of the current record list
ExportIsCurrent ==
    /\ export_file.exists /\ export_file.parses
    /\ export_file.json.fields.memories = JArray(DictsOf(memories))

\* C9: importing the JSON export of a store with merge = false yields a store
\* with the same set of (key or id, memory_type, value, importance) tuples,
\* and reports added = the number of exported records, updated = skipped = 0.
C9_RoundTrip ==
    [][ ( /\ ExportIsCurrent
          /\ last'.op = "import_memories" /\ last'.source = "export" /\ ~last'.merge )
        => ( /\ last'.ret.success
             /\ TuplesOf(memories') = TuplesOf(memories)
             /\ Len(memories') = Len(memories)
             /\ last'.ret.added = Len(memories)
             /\ last'.ret.updated = 0 /\ last'.ret.skipped = 0 ) ]_vars

\* the export of a store with an empty key and an out-of-range importance
\* has been imported in replace mode
C9_Witness ==
    /\ last.op = "import_memories" /\ last.source = "export" /\ ~last.merge
    /\ last.ret.success /\ last.ret.added = 2
    /\ ExportIsCurrent
    /\ \E i \in Positions(memories) : memories[i].key = "" /\ memories[i].importance = 9
    /\ \E i \in Positions(memories) : memories[i].key = "name"

\* the loop of import_memories as documented: an incoming record whose
\* key is indexed is merged as add_memory merges, in either mode
RECURSIVE ClaimedImportLoop(_, _, _, _)
ClaimedImportLoop(st, items, i, t) ==
    IF i > Len(items) THEN st
    ELSE LET x == items[i] IN
         IF x.t # "object" \/ from_dict_raises(WithIsShared(x.fields))
         THEN ClaimedImportLoop(st, items, i + 1, t)
         ELSE LET memory == from_dict(WithIsShared(x.fields)) IN
              IF KeyIndexed(st.index_by_key, memory.key)
              THEN ClaimedImportLoop(
                     [st EXCEPT !.memories =
                         UpsertExisting(@, st.index_by_key[memory.key], memory, t)],
                     items, i + 1, t)
              ELSE ClaimedImportLoop(AppendIndexed(st, memory), items, i + 1, t)

\* C10: in import_memories, in either merge mode, an incoming record whose
\* key is in the key index is merged into the indexed record as add_memory's
\* keyed upsert does (value and content replaced, importance the larger one,
\* last_accessed refreshed) and no second record with the key is appended.
C10_ImportMergesLikeAdd ==
    [][ (last'.op = "import_memories" /\ last'.ret.success) =>
        LET data == IF IsEnvelope(last'.file.json)
                    THEN last'.file.json.fields["memories"] ELSE last'.file.json
        IN memories' = ClaimedImportLoop(
                           ImportStart(memories, index_by_key, last'.merge),
                           Iterate(data), 1, now).memories ]_vars

\* the items of a parsed import file whose top level is a list or an envelope
ItemsOfFile(file) ==
    IF IsEnvelope(file.json) THEN file.json.fields["memories"] ELSE file.json

\* the file is readable and holds a list of items, bare or in an envelope
HoldsItemList(file) ==
    /\ file.exists /\ file.parses
    /\ (IsEnvelope(file.json) \/ file.json.t = "array")
    /\ ItemsOfFile(file).t = "array"

ValidItem(x) == x.t = "object" /\ ~from_dict_raises(WithIsShared(x.fields))

\* C11: for a readable import file that holds a list of items, import_memories
\* returns success with added + updated + skipped = the number of items and
\* total = added + updated; skipped is the number of invalid items, and every
\* valid item (that no later valid item of the file overrides on its key) is
\* in the store afterwards with its key, value and content, wherever invalid
\* items stand in the file.
C11_InvalidItemsSkipped ==
    [][ (last'.op = "import_memories" /\ HoldsItemList(last'.file)) =>
        LET items == ItemsOfFile(last'.file).items
            valid == {i \in DOMAIN items : ValidItem(items[i])}
            Rec(i) == from_dict(WithIsShared(items[i].fields))
            r == last'.ret
        IN /\ r.success
           /\ r.added + r.updated + r.skipped = Len(items)
           /\ r.total = r.added + r.updated
           /\ r.skipped = Len(items) - Cardinality(valid)
           /\ \A i \in valid :
                (\A j \in valid : (j > i /\ Truthy(Rec(i).key)) => Rec(j).key # Rec(i).key)
                => \E p \in Positions(memories') :
                        /\ memories'[p].key = Rec(i).key
                        /\ memories'[p].value = Rec(i).value
                        /\ memories'[p].content = Rec(i).content ]_vars

\* a three-item file with an invalid item in the middle has been imported
\* into a store that held the key of its first item: one item merged, one
\* skipped, and the one after the invalid item merged as well
C11_Witness ==
    /\ last.op = "import_memories" /\ last.merge
    /\ last.file = JsonFile(JArray(<<ItemZed, JNumber(5), ItemPrivate>>))
    /\ last.ret.success /\ last.ret.updated = 2 /\ last.ret.skipped = 1
    /\ \E p \in Positions(memories) : memories[p].value = "Yan"

\* C12: whenever import_memories returns a failure result, the record list
\* and the key index are exactly as before the call, in either merge mode.
C12_FailureLeavesStore ==
    [][ (last'.op = "import_memories" /\ ~last'.ret.success) =>
        (memories' = memories /\ index_by_key' = index_by_key) ]_vars

TouchingReads ==
    {"get_memory_by_key", "get_memories_by_type", "get_important_memories",
     "get_recent_memories"}

\* C13: get_memory_by_key, get_memories_by_type, get_important_memories and
\* get_recent_memories each add exactly 1 to access_count and set
\* last_accessed to a reading of the clock taken during the call for every
\* record they return, change no other field of it, and leave every record
\* they do not return as it was; search_memories changes no record.
C13_TouchOnRead ==
    [][ /\ last'.op \in TouchingReads =>
            /\ Len(memories') = Len(memories)
            /\ \A i \in Positions(memories) :
                 IF \E n \in DOMAIN last'.ret : last'.ret[n] = i
                 THEN /\ memories'[i].access_count = memories[i].access_count + 1
                      /\ memories'[i].last_accessed \in now..now'
                      /\ \A f \in Fields \ {"access_count", "last_accessed"} :
                            memories'[i][f] = memories[i][f]
                 ELSE memories'[i] = memories[i]
        /\ last'.op = "search_memories" =>
            (memories' = memories /\ index_by_key' = index_by_key) ]_vars

\* get_recent_memories(1) has returned the second of two records, touched it
\* at a later clock reading, and left the first one as it was
C13_Witness ==
    /\ last.op = "get_recent_memories" /\ last.limit = 1 /\ last.ret = <<2>>
    /\ Len(memories) = 2
    /\ memories[2].access_count = 2 /\ memories[2].last_accessed = 2
    /\ memories[1].access_count = 0 /\ memories[1].last_accessed = 1

\* C14: get_memories_for_context(max_count), max_count >= 0, returns at most
\* max_count records, none twice; the records of importance >= 3 come first,
\* in descending importance, followed by the other records in descending
\* order of their last_accessed before the call; nothing is left out except
\* by the cut at max_count (the stores explored hold fewer than 20 records).
C14_ContextList ==
    [][ (last'.op = "get_memories_for_context" /\ last'.max_count >= 0) =>
        LET r == last'.ret
            Important(p) == memories[p].importance >= ContextImportance
        IN /\ Len(r) = min(last'.max_count, Len(memories))
           /\ \A n \in DOMAIN r : r[n] \in Positions(memories)
           /\ \A n, k \in DOMAIN r : n # k => r[n] # r[k]
           /\ \A n, k \in DOMAIN r :
                (n < k /\ Important(r[k])) =>
                    /\ Important(r[n])
                    /\ memories[r[n]].importance >= memories[r[k]].importance
           /\ \A p \in Positions(memories) :
                (Important(p) /\ \A n \in DOMAIN r : r[n] # p) =>
                    \A n \in DOMAIN r : Important(r[n])
           /\ \A n, k \in DOMAIN r :
                (n < k /\ ~Important(r[n])) =>
                    memories[r[n]].last_accessed >= memories[r[k]].last_accessed ]_vars

\* on the store of eight records the call with max_count = 5 has returned the
\* four important records by importance and then the most recent other one
C14_Witness ==
    /\ last.op = "get_memories_for_context" /\ last.max_count = 5
    /\ last.ret = <<3, 2, 7, 4, 1>>
    /\ Len(memories) = 8
    /\ memories[3].importance = 5 /\ memories[4].importance = 3
    /\ memories[1].importance = 2

\* the heading a memory type is shown under
HeadingOf(memory_type) ==
    CASE memory_type = "personal_info" -> "Personal Information"
      [] memory_type = "preference" -> "Preferences"
      [] memory_type = "conversation_topic" -> "Conversation Topic"

\* C15: get_context_summary returns the sentinel "No information about the
\* user yet." when the store holds no memories; otherwise it returns one
\* block per memory type of the context list, under the type's label, with
\* the lines of the type's first 5 records of the context list, a line being
\* "- key: value" when key and value are both set (neither null nor empty)
\* and "- content" otherwise.
C15_ContextSummary ==
    last.op = "get_context_summary" =>
        LET ctx == last.context
            r == last.ret
            types == {memories[ctx[n]].memory_type : n \in DOMAIN ctx}
            Members(T) == LET Test(p) == memories[p].memory_type = T
                          IN SelectSeq(ctx, Test)
            Set(x) == x # None /\ x # ""
            Line(m) == IF Set(m.key) /\ Set(m.value)
                       THEN <<"- ", m.key, ": ", m.value>>
                       ELSE <<"- ", m.content>>
        IN IF Len(memories) = 0
           THEN r.text = NoInformation
           ELSE /\ r.text # NoInformation
                /\ Len(r.blocks) = Cardinality(types)
                /\ \A T \in types :
                     \E n \in DOMAIN r.blocks :
                        LET b == r.blocks[n] IN
                        /\ b.label = HeadingOf(T)
                        /\ Len(b.items) = min(5, Len(Members(T)))
                        /\ \A k \in DOMAIN b.items :
                                b.items[k] = Line(memories[Members(T)[k]])

\* the summary of the store of eight records: three blocks, five of the six
\* preferences shown, a keyed record with an empty value shown by its
\* content, and the name shown as "- name: Alice"
C15_Witness ==
    /\ last.op = "get_context_summary" /\ Len(memories) = 8
    /\ Len(last.ret.blocks) = 3
    /\ last.ret.blocks[1].label = "Preferences"
    /\ Len(last.ret.blocks[1].items) = 5
    /\ last.ret.blocks[1].items[1] = <<"- ", "music", ": ", "jazz">>
    /\ last.ret.blocks[1].items[3] = <<"- ", "Dislikes rain">>
    /\ last.ret.blocks[2].label = "Personal Information"
    /\ last.ret.blocks[2].items = << <<"- ", "name", ": ", "Alice">> >>

\* C16: in every reachable state every record has last_accessed >= created_at,
\* the clock never going back.
C16_AccessedAfterCreated ==
    \A i \in Positions(memories) :
        memories[i].last_accessed >= memories[i].created_at

\* the call has returned from an operation that saves: add_memory, a delete
\* or an importance update that found its record, a successful import, a
\* read that touches
HasSaved(call) ==
    \/ call.op \in {"add_memory", "get_memories_by_type", "get_important_memories",
                    "get_recent_memories", "get_memories_for_context",
                    "get_context_summary"}
    \/ call.op \in {"delete_memory", "update_memory_importance"} /\ call.ret
    \/ call.op = "import_memories" /\ call.ret.success
    \/ call.op = "get_memory_by_key" /\ call.ret # <<>>

\* C17: with a writable backing file, when add_memory, delete_memory
\* (returning true), update_memory_importance (returning true),
\* import_memories (success) or a touching read returns, the backing file is
\* a JSON array from which load() builds exactly the record list in memory:
\* the same records, the same field values, the same order.
C17_FileMirrorsStore ==
    [][ HasSaved(last') =>
            /\ memory_file'.exists /\ memory_file'.parses
            /\ memory_file'.json.t = "array"
            /\ load(memory_file') = memories' ]_vars

\* a touching read has returned on a store of two records, one of them with
\* an empty key and an importance out of range, and the file holds both
C17_Witness ==
    /\ last.op = "get_recent_memories" /\ Len(last.ret) = 1
    /\ Len(memories) = 2
    /\ \E i \in Positions(memories) : memories[i].key = "" /\ memories[i].importance = 9
    /\ \E i \in Positions(memories) : memories[i].access_count > 0
    /\ memory_file = JsonFile(JArray(DictsOf(memories)))

\* C18: when a mutating operation returns, the in-memory change is in place
\* whatever became of the save (a record created by add_memory is in the
\* list, a record deleted is gone), and the backing file either holds the
\* complete current record list (the save succeeded) or still has the
\* content it had before the call (the save failed).
C18_SaveFailure ==
    [][ HasSaved(last') =>
            /\ last'.op = "add_memory" =>
                    /\ last'.ret \in Positions(memories')
                    /\ memories'[last'.ret].content = last'.args.content
            /\ last'.op = "delete_memory" => Len(memories') = Len(memories) - 1
            /\ \/ memory_file' = JsonFile(JArray(DictsOf(memories')))
               \/ memory_file' = memory_file ]_vars

\* the message matches one of the name patterns
MatchesName(msg) == \E n \in DOMAIN name_patterns : Search(msg, name_patterns[n]) # 0

\* C19: when extract_quick_facts runs on a message that matches a name
\* pattern and then at once on the same message again, the second run makes
\* no add_memory call on the key "name", returns no record with that key,
\* and leaves value, content and importance of every record with that key
\* as they were.
C19_NameIdempotent ==
    [][ ( /\ last.op = "extract_quick_facts" /\ last'.op = "extract_quick_facts"
          /\ last'.message = last.message
          /\ MatchesName(last.message) )
        => ( /\ last'.name_adds = 0
             /\ \A n \in DOMAIN last'.ret : memories'[last'.ret[n]].key # "name"
             /\ Len(memories') = Len(memories)
             /\ \A i \in Positions(memories) :
                    memories[i].key = "name" =>
                        /\ memories'[i].value = memories[i].value
                        /\ memories'[i].content = memories[i].content
                        /\ memories'[i].importance = memories[i].importance ) ]_vars

\* the objects of the array a reply holds
ReplyObjects(reply) ==
    LET IsDict(x) == x.t = "object"
    IN SelectSeq(ParsedArray(reply.pieces).data.items, IsDict)

\* C20: every memory the AI extractor commits is sanitized: its type is a
\* value of MemoryType (important_fact when the object has no type or an
\* unknown one), its content is a string of at most 500 characters, its key
\* is null or a non-empty string of at most 100 characters, its value is
\* null or a non-empty string of at most 200 characters, and its importance
\* is an integer in 1..5 (2 when the object gives none).
C20_Sanitized ==
    last.op = "extract_from_conversation" =>
        \A n \in DOMAIN last.committed :
            LET d == last.committed[n]
                item == ReplyObjects(last.reply)[n]
            IN /\ d.type \in MemoryTypes
               /\ ("type" \notin DOMAIN item.fields) => d.type = "important_fact"
               /\ d.content.t = "string" /\ StrLen(d.content.chars) <= 500
               /\ \/ d.key.t = "null"
                  \/ (d.key.t = "string" /\ d.key.chars # ""
                        /\ StrLen(d.key.chars) <= 100)
               /\ \/ d.value.t = "null"
                  \/ (d.value.t = "string" /\ d.value.chars # ""
                        /\ StrLen(d.value.chars) <= 200)
               /\ d.importance.t = "number" /\ d.importance.number \in 1..5
               /\ ("importance" \notin DOMAIN item.fields) => d.importance = JNumber(2)

\* the reply has no bracketed text at all
NoBracketedJson(pieces) ==
    \A n \in DOMAIN pieces : pieces[n].t \notin {"json", "brackets"}

\* the bracketed text of the reply is not well-formed JSON
MalformedJson(pieces) ==
    ~NoBracketedJson(pieces) /\ ~ParsedArray(pieces).found

\* the reply is one JSON document whose top level is an object
ObjectTopLevel(pieces) ==
    /\ Len(pieces) = 3
    /\ pieces[1] = ObjectOpenPiece /\ pieces[3] = ObjectClosePiece
    /\ pieces[2].t = "json"

\* C21: AI extraction is best-effort: when the completion call raises, or
\* the reply has no bracketed JSON, malformed JSON or a top level that is
\* not a list, extract_from_conversation returns the empty list and leaves
\* the records of the store as they were.
C21_BestEffort ==
    [][(/\ last'.op = "extract_from_conversation"
        /\ \/ last'.reply.raises
           \/ NoBracketedJson(last'.reply.pieces)
           \/ MalformedJson(last'.reply.pieces)
           \/ ObjectTopLevel(last'.reply.pieces))
       => (last'.ret = <<>> /\ memories' = memories)]_vars

\* C22: should_trigger_extraction(n) is true iff n > 0 and n % 5 = 0;
\* process_conversation invokes the AI extractor iff the conversation has a
\* positive multiple of 10 messages; the two disagree exactly at the odd
\* multiples of 5, where the AI extractor does not run.
C22_Cadence ==
    /\ last.op = "should_trigger_extraction" =>
            (last.ret <=> (last.message_count > 0 /\ last.message_count % 5 = 0))
    /\ last.op = "process_conversation" =>
            LET n == Len(last.messages) IN
            /\ last.deep <=> (n > 0 /\ n % 10 = 0)
            /\ (last.deep # should_trigger_extraction(n)) <=> (n % 10 = 5)
            /\ (n % 10 = 5) => ~last.deep

\* a conversation of 15 messages was processed without the AI extractor
C22_Witness ==
    /\ last.op = "process_conversation"
    /\ Len(last.messages) = 15
    /\ ~last.deep /\ last.quick

\* C23: when add_memory calls of concurrent threads on one non-null key
\* interleave between the lookup of the key and the append and index write,
\* the store still ends, once every call has returned, with exactly one
\* record holding that key and the key index pointing to it.
C23_SerializedAdds ==
    AllIdle =>
        \A i \in Positions(memories) :
            Truthy(memories[i].key) =>
                /\ \A j \in Positions(memories) :
                        memories[j].key = memories[i].key => j = i
                /\ IndexGet(index_by_key, memories[i].key) = i

Commented(pieces) ==
    /\ \A n \in DOMAIN pieces : pieces[n].t \in {"text", "brackets", "json"}
    /\ Cardinality({n \in DOMAIN pieces : pieces[n].t = "json"}) = 1

\* the array of such a reply
ArrayOf(pieces) ==
    pieces[CHOOSE n \in DOMAIN pieces : pieces[n].t = "json"].json

\* an object of the array that states a fact: a type of the enumeration and
\* fields of the types the prompt asks for
FactObject(x) ==
    /\ x.t = "object"
    /\ "type" \in DOMAIN x.fields
    /\ x.fields["type"].t = "string" /\ x.fields["type"].chars \in MemoryTypes
    /\ ~SanitizeRaises(x)
    /\ ItemGet(x, "importance", JNumber(2)).t = "number"

\* C25: for a reply made of leading commentary, one well-formed JSON array
\* of fact objects and trailing commentary, the AI extractor commits exactly
\* one memory per object of the array, each with the type of its object,
\* whatever the commentary holds.
C25_CommentaryIgnored ==
    (/\ last.op = "extract_from_conversation"
     /\ last.called /\ ~last.reply.raises
     /\ Commented(last.reply.pieces)
     /\ \A n \in DOMAIN ArrayOf(last.reply.pieces).items :
            FactObject(ArrayOf(last.reply.pieces).items[n]))
    => LET items == ArrayOf(last.reply.pieces).items IN
       /\ Len(last.ret) = Len(items)
       /\ Len(last.committed) = Len(items)
       /\ \A n \in DOMAIN items :
            /\ last.committed[n].type = items[n].fields["type"].chars
            /\ memories[last.ret[n]].memory_type = items[n].fields["type"].chars

\* C26: extract_from_conversation reads the user's messages among the last
\* 10 only: when there is none (or the conversation is empty) it makes no
\* completion call and commits nothing, even if older messages are from the
\* user; when it commits, the completion call was made first.
C26_LastTenUserMessages ==
    [][ last'.op = "extract_from_conversation" =>
        LET ms == last'.messages
            window == {i \in DOMAIN ms : i > Len(ms) - 10}
            user_in_window == \E i \in window : ms[i] = "user"
        IN /\ last'.called <=> user_in_window
           /\ ~user_in_window =>
                /\ last'.ret = <<>> /\ last'.committed = <<>>
                /\ memories' = memories /\ index_by_key' = index_by_key
           /\ Len(last'.committed) > 0 => last'.called ]_vars

\* the extractor was handed a conversation whose only message of the user is
\* older than the last 10, and a reply that holds a fact was at hand
C26_Witness ==
    /\ last.op = "extract_from_conversation"
    /\ Len(last.messages) = 11 /\ last.messages[1] = "user"
    /\ ~last.called /\ last.ret = <<>>
    /\ ~last.reply.raises
    /\ Len(parse_extraction_response(last.reply.pieces)) > 0

\* C27: in the chat flow, where process_conversation is called after each
\* reply of the assistant with the context messages of the conversation, the
\* AI extractor runs on exactly the turns at which the conversation holds a
\* positive multiple of 10 messages, however long the conversation is.
C27_DeepEveryTen ==
    last.op = "on_response" =>
        (last.deep <=> (last.total > 0 /\ last.total % 10 = 0))

\* the non-empty keys of the records of the list
KeysOfRecords(ms) == {ms[i].key : i \in {j \in Positions(ms) : Truthy(ms[j].key)}}

\* C28: in every state reachable by add_memory, delete_memory,
\* import_memories and load, the key index has an entry for a key iff some
\* record of the list has that non-empty key, and the record indexed is in
\* the list and has the key.
C28_IndexConsistent ==
    /\ DOMAIN index_by_key = KeysOfRecords(memories)
    /\ \A k \in DOMAIN index_by_key :
            /\ index_by_key[k] \in Positions(memories)
            /\ memories[index_by_key[k]].key = k

\* the companion a write is made for
WriterOf(call) ==
    IF call.op = "add_memory" THEN call.args.companion_id ELSE call.companion_id

\* C29: an add_memory call made for a companion, directly or through either
\* extractor, never changes the content, value or importance of a
\* non-shared record of another companion, and every memory an extractor
\* returns is a shared record.
C29_ScopedWrites ==
    [][ last'.op \in {"add_memory", "extract_quick_facts", "extract_from_conversation"} =>
        /\ \A i \in Positions(memories) :
                (~memories[i].is_shared /\ memories[i].companion_id # WriterOf(last'))
                => /\ memories'[i].content = memories[i].content
                   /\ memories'[i].value = memories[i].value
                   /\ memories'[i].importance = memories[i].importance
        /\ last'.op # "add_memory" =>
                \A n \in DOMAIN last'.ret : memories'[last'.ret[n]].is_shared ]_vars

\* the loop of import_memories when an item that is counted as skipped
\* leaves the store as it found it
RECURSIVE SkipFreeLoop(_, _, _, _)
SkipFreeLoop(st, items, i, merge) ==
    IF i > Len(items) THEN st
    ELSE LET r == ImportOne(st, items[i], merge) IN
         SkipFreeLoop(IF r.skipped > st.skipped
                      THEN [st EXCEPT !.skipped = @ + 1] ELSE r,
                      items, i + 1, merge)

\* C30: an import item that import_memories counts as skipped has no effect
\* on the store: no record is added and no field of an existing record is
\* changed by it, also when its key is indexed and its importance cannot be
\* compared.
C30_SkippedHasNoEffect ==
    [][ (last'.op = "import_memories" /\ HoldsItemList(last'.file)) =>
        LET end == SkipFreeLoop(ImportStart(memories, index_by_key, last'.merge),
                                ItemsOfFile(last'.file).items, 1, last'.merge)
        IN /\ last'.ret.skipped = end.skipped
           /\ memories' = end.memories
           /\ index_by_key' = end.index_by_key ]_vars

====
